---- MODULE Spec2Model ----
(***************************************************************************)
(* Model of the AI control layer of atari800-ai (src/src/ai_interface.c):  *)
(* the single-client socket server, the pause/run scheduler driven by      *)
(* AI_Frame, the command dispatcher, the input override table applied by   *)
(* AI_ApplyInput and the debug capture buffer.                             *)
(*                                                                         *)
(* Program state is the file-scope state of ai_interface.c.  The peer side *)
(* of the socket (pending connections, bytes in flight, peer close) is the *)
(* environment.  Variables whose name starts with obs_ are history         *)
(* variables: they record what happened and never influence the program.   *)
(***************************************************************************)
EXTENDS Integers, Sequences, FiniteSets, TLC

(* ---------------------------- bounds ----------------------------------- *)
\* number of client connections ever opened
MaxSessions == 2
\* number of requests the clients send in total
MaxCmds == 2
\* largest frame / instruction count a request carries
MaxN == 2
\* saturation point of the observer's response counter
RespCap == 2
\* instructions the emulator executes in one frame (abstracted)
InstrPerFrame == 3
\* capacity of the debug buffer; 4096 in the source, scaled down
AI_DEBUG_BUFFER_SIZE == 2

(* ---------------------------- constants -------------------------------- *)
\* descriptor value of the listening socket once set up
ListenFd == 0
\* default of the "frames" field of run
RunDefault == 1
\* default of the "instructions" field of step
StepDefault == 1
\* number of joystick ports of the override table
NumPorts == 4
\* size of the dispatcher's command-name buffer, char cmd_type[32]
CmdTypeSize == 32
\* size of the joystick handler's direction buffer, char dir[16]
DirSize == 16
\* size of the handlers' path buffer, char path[512]
PathSize == 512
\* default of the "addr" field of debug_enable, 0xD7FF
DebugPortDefault == 55295
\* size of the request buffer of AI_Frame
AI_BUFFER_SIZE == 65536
\* number of paddle inputs and default of the "value" field of paddle
NumPaddles == 8
PaddleDefault == 128
\* value of a paddle input nobody turns
PotIdle == 228
\* most bytes one peek returns
PeekMax == 256
\* size of the address space, (UWORD) wraps at it
MemSize == 65536
\* input.h: the console keys value with no key pressed, and the keys' bits
INPUT_CONSOL_NONE == 7
INPUT_CONSOL_START == 1
INPUT_CONSOL_SELECT == 2
INPUT_CONSOL_OPTION == 4
\* cpu.h: CPU_regPC is a UWORD, CPU_regA, CPU_regX, CPU_regY, CPU_regS UBYTEs
WordSize == 65536
ByteSize == 256
\* stick encodings (active-low direction lines)
INPUT_STICK_CENTRE == 15
INPUT_STICK_FORWARD == 14
INPUT_STICK_BACK == 13
INPUT_STICK_LEFT == 11
INPUT_STICK_RIGHT == 7
\* the diagonals pull two direction lines low
INPUT_STICK_UL == INPUT_STICK_FORWARD + INPUT_STICK_LEFT - INPUT_STICK_CENTRE
INPUT_STICK_UR == INPUT_STICK_FORWARD + INPUT_STICK_RIGHT - INPUT_STICK_CENTRE
INPUT_STICK_LL == INPUT_STICK_BACK + INPUT_STICK_LEFT - INPUT_STICK_CENTRE
INPUT_STICK_LR == INPUT_STICK_BACK + INPUT_STICK_RIGHT - INPUT_STICK_CENTRE

\* the ports of the override table
Ports == 0..(NumPorts - 1)
\* the paddle inputs
Paddles == 0..(NumPaddles - 1)

\* the connections made to the listening socket, in the order they are made
Sessions == 1..MaxSessions

(* ---------------------------- requests --------------------------------- *)
\* a numeric field of the request payload: absent, or a number
Absent == [k |-> "absent", v |-> 0]
IntField(n) == [k |-> "int", v |-> n]
\* the "frames" field of the run requests sent
RunFields == {Absent, IntField(-1), IntField(0), IntField(MaxN)}
\* the "instructions" field of the step requests sent
StepFields == {Absent, IntField(0), IntField(MaxN)}

\* the requests the clients of this specification send
Requests ==
  {[cmd |-> "run", arg |-> a] : a \in RunFields}
    \cup {[cmd |-> "step", arg |-> a] : a \in StepFields}
    \cup {[cmd |-> c, arg |-> Absent] : c \in {"pause", "ping"}}

\* json_get_int: the default when the key is missing or the value starts
\* with a quote, else atoi of the text after the colon: the number, and 0
\* for true, false, null, an array or an object
json_get_int(f, def) ==
  IF f.k = "absent" \/ f.k = "str" THEN def
  ELSE IF f.k = "int" THEN f.v
  ELSE 0

\* a string field and a boolean field of the request payload
StrField(str) == [k |-> "str", v |-> str]
BoolField(b) == [k |-> "bool", v |-> b]
\* a null and an array of the request payload
NullField == [k |-> "null", v |-> 0]
ArrayField(a) == [k |-> "array", v |-> a]

\* json_get_string: the caller's buffer is left as initialised ("") when the
\* key is missing or the value is no string, else it receives the value cut
\* to bufsize - 1 characters
json_get_string(f, bufsize) ==
  IF f.k = "str"
    THEN IF Len(f.v) > bufsize - 1 THEN SubSeq(f.v, 1, bufsize - 1) ELSE f.v
    ELSE ""

\* json_get_bool: 1 for true, 0 for false, else the default
json_get_bool(f, def) == IF f.k = "bool" THEN (IF f.v THEN 1 ELSE 0) ELSE def

\* the field named key of a request: Absent when the payload has none
Field(req, key) == IF key \in DOMAIN req THEN req[key] ELSE Absent

VARIABLES
  AI_enabled,        \* AI_enabled
  ai_server_fd,      \* listening socket, -1 when none
  ai_client_fd,      \* the session's descriptor, -1 when none
  ai_paused,         \* 1 = paused, 0 = running
  ai_frames_to_run,
  ai_steps_to_run,
  pc,                \* "host": about to call AI_Frame; "loop": in AI_Frame,
                     \* at the head of its drain loop
  openFds,           \* client descriptors the process holds open
  backlog,           \* connections waiting in the listen queue
  peerOpen,          \* per session: the peer has not closed its end
  inbuf,             \* per session: requests sent and not yet read
  outlog,            \* per session: responses written to it
  nextSess,          \* next unused session id
  sent,              \* requests sent so far
  AI_joy_override,   \* per port: stick value, -1 = no override
  AI_trig_override,  \* per port: trigger value, -1 = no override
  AI_debug_port,     \* address captured into the debug buffer
  ai_debug_buffer,   \* the bytes stored; ai_debug_buffer_pos is its length
  PIA_PORT_input,    \* the two port-input bytes the chips read
  GTIA_TRIG,         \* the four trigger flags the chips read
  hw,                \* what the emulator's input poll reads from the host
  POKEY_POT_input,   \* the eight paddle inputs the chips read
  MEMORY_mem,        \* the bytes written to memory so far, by address
  INPUT_key_consol,  \* the console keys value, a cleared bit a pressed key
  CPU_regs,          \* CPU_regPC, CPU_regA, CPU_regX, CPU_regY, CPU_regS
  jq,                \* field extraction on its own: the call made
  jr,                \* field extraction on its own: what the call returned
  obs_gw,            \* history: the guest's latest memory write
  obs_boot,          \* history: the command line, until AI_Frame is first called
  obs_dbg,           \* history: bytes the guest wrote since the last read-out
  obs_req,           \* history: the request dispatched last
  obs_joy,           \* history: per port, the joystick request dispatched last
  obs_run,           \* history: the latest dispatched run or step
  obs_owner          \* history: the run whose frames are being counted

vars == <<AI_enabled, ai_server_fd, ai_client_fd, ai_paused, ai_frames_to_run,
          ai_steps_to_run, pc, openFds, backlog, peerOpen, inbuf, outlog,
          nextSess, sent, AI_joy_override, AI_trig_override, AI_debug_port,
          ai_debug_buffer, PIA_PORT_input, GTIA_TRIG, hw, obs_dbg, obs_req,
          obs_joy, obs_run, obs_owner, POKEY_POT_input, jq, jr, obs_gw,
          obs_boot, MEMORY_mem, INPUT_key_consol, CPU_regs>>

envVars == <<peerOpen, nextSess, sent>>

\* the override table and the debug capture state (with its history)
\* the emulator state the handlers write directly
emuVars == <<MEMORY_mem, INPUT_key_consol, CPU_regs>>

ctlVars == <<AI_joy_override, AI_trig_override, AI_debug_port, ai_debug_buffer,
             obs_dbg, obs_req, obs_joy, POKEY_POT_input, emuVars>>

\* variables of specifications of their own, which neither the frame loop
\* nor the peers write
sideVars == <<jq, jr, obs_gw>>

\* the emulator's input registers and the host input they are polled from
inputVars == <<PIA_PORT_input, GTIA_TRIG, hw>>

\* obs_run: kind "run" or "step", n the count asked for, frames the emulator
\* frames executed and resps the responses written since the dispatch while
\* it was outstanding, st "active" until the scheduler is paused again, sup
\* whether a connection was accepted while it was outstanding
NoRun == [kind |-> "none", n |-> 0, frames |-> 0, resps |-> 0, st |-> "none",
          sup |-> FALSE]
\* obs_owner: the session that sent the run being counted and its count
NoOwner == [sess |-> 0, n |-> 0]
\* obs_req before any dispatch; obs_joy of a port no joystick request named
NoReq == [cmd |-> "(none)"]
NoJoy == [direction |-> "(none)", fire |-> 0]
\* jq, jr while no extraction was made; obs_gw before any guest write
NoQuery == [ask |-> "(none)"]
NoResult == [k |-> "(none)"]
NoStore == [addr |-> -1, byte |-> 0]
\* obs_boot once AI_Frame has been called
Started == [ai |-> FALSE, airun |-> FALSE, sockok |-> FALSE, started |-> TRUE]

(* ------------------- the state the operations work on ------------------ *)
\* the part of the state AI_Frame and what it calls read and write
Cur ==
  [client |-> ai_client_fd, paused |-> ai_paused, frames |-> ai_frames_to_run,
   steps |-> ai_steps_to_run, fds |-> openFds, backlog |-> backlog,
   inbuf |-> inbuf, outlog |-> outlog, joy |-> AI_joy_override,
   trig |-> AI_trig_override, dbgport |-> AI_debug_port,
   dbgbuf |-> ai_debug_buffer, wr |-> obs_dbg, last |-> obs_req,
   lastjoy |-> obs_joy, pot |-> POKEY_POT_input, run |-> obs_run,
   owner |-> obs_owner, mem |-> MEMORY_mem, consol |-> INPUT_key_consol,
   cpu |-> CPU_regs]

Commit(S) ==
  /\ ai_client_fd' = S.client
  /\ ai_paused' = S.paused
  /\ ai_frames_to_run' = S.frames
  /\ ai_steps_to_run' = S.steps
  /\ openFds' = S.fds
  /\ backlog' = S.backlog
  /\ inbuf' = S.inbuf
  /\ outlog' = S.outlog
  /\ AI_joy_override' = S.joy
  /\ AI_trig_override' = S.trig
  /\ AI_debug_port' = S.dbgport
  /\ ai_debug_buffer' = S.dbgbuf
  /\ obs_dbg' = S.wr
  /\ obs_req' = S.last
  /\ obs_joy' = S.lastjoy
  /\ POKEY_POT_input' = S.pot
  /\ obs_run' = S.run
  /\ obs_owner' = S.owner
  /\ MEMORY_mem' = S.mem
  /\ INPUT_key_consol' = S.consol
  /\ CPU_regs' = S.cpu

(* ------------------------- responses ----------------------------------- *)
Ok == [status |-> "ok", key |-> "", val |-> 0]
Pong == [status |-> "ok", key |-> "msg", val |-> 0]
\* an error response and its message
Err(msg) == [status |-> "error", key |-> "msg", val |-> msg]
\* a mutant: the message does not say which command
UnknownAnon(cmd_type) == Err("Unknown command")
\* "Unknown command: %s" with the name the dispatcher extracted
Unknown(cmd_type) == Err("Unknown command: " \o cmd_type)
\* an ok response that carries the data a read-out command asked for
Data(key, val) == [status |-> "ok", key |-> key, val |-> val]

\* the frames_run value AI_Frame formats into the completion response
FramesRunReported(n) == 1

FramesRun(n) == [status |-> "ok", key |-> "frames_run", val |-> FramesRunReported(n)]

\* history: a run or step that is outstanding stops being so once paused
ObsPaused(S) ==
  IF S.paused # 0 /\ S.run.st = "active"
    THEN [S EXCEPT !.run.st = "done"]
    ELSE S

\* AI_SendResponse: nothing without a session, else header and body written
AI_SendResponse(S, r) ==
  IF S.client < 0 THEN S
  ELSE [S EXCEPT !.outlog[S.client] = Append(@, r),
                 !.run.resps = IF S.run.st = "active" /\ @ < RespCap
                                 THEN @ + 1 ELSE @]

(* ------------------------- connections --------------------------------- *)
\* a mutant: the previous descriptor is not closed
FdsAfterAcceptLeak(fds, old, new) == fds \cup {new}

\* check_connections: close(ai_client_fd) if any, then adopt the new one
FdsAfterAccept(fds, old, new) == (fds \ {old}) \cup {new}

\* a mutant: the accept leaves the paused flag as it was
PausedAfterAcceptKeep(p) == p

\* check_connections: ai_paused = 1 after an accept
PausedAfterAccept(p) == 1

\* close(fd): what the peer sent and was not read is discarded
Discard(buf, fd) == IF fd >= 0 THEN [buf EXCEPT ![fd] = <<>>] ELSE buf

\* check_connections: adopt a pending connection if select() reports one
check_connections(S) ==
  IF ai_server_fd < 0 THEN S
  ELSE IF S.backlog = <<>> THEN S
  ELSE LET client == Head(S.backlog) IN
       ObsPaused(
         [S EXCEPT !.backlog = Tail(@),
                   !.fds = FdsAfterAccept(@, S.client, client),
                   !.inbuf = Discard(@, S.client),
                   !.client = client,
                   !.paused = PausedAfterAccept(@),
                   !.run.sup = IF S.run.st = "active" THEN TRUE ELSE @])

\* a mutant: the descriptor of a gone peer is forgotten without close()
FdsAfterCloseLeak(fds, fd) == fds

\* read_command: close(ai_client_fd) when the peer is gone
FdsAfterClose(fds, fd) == fds \ {fd}

\* read_command: atoi(header) of a length prefix: the number written in it,
\* 0 when the header line does not start with a number
atoi(f) == IF f.k = "int" THEN f.v ELSE 0

\* the length prefix of a frame as read_command reads it.  A frame that
\* carries no "len" was sent with the length of its payload, which is within
\* 1..AI_BUFFER_SIZE-1; a frame with "len" was sent with that header line
\* (and, when the number is positive, a payload of that many bytes).
HeaderLen(f) ==
  IF Field(f, "len").k = "absent" THEN 1 ELSE atoi(Field(f, "len"))

\* bytes left unread in the socket that are not at the start of a frame:
\* the payload of a frame whose header was refused
Junk == [junk |-> TRUE]

\* read_command, reading where junk lies: the bytes up to a newline (at most
\* 31 of them) are taken for a header, atoi gives 0 for payload text, the
\* call returns 0.  The calls that eat the junk are folded into one; the
\* last of them swallows the header line of the frame behind it, whose
\* payload is junk in turn.
AfterJunk(rest) == IF rest = <<>> THEN <<>> ELSE <<Junk>> \o Tail(rest)

\* what is left in the socket of a frame whose header line was cut between
\* two digits when read_command read it: the digits read were dropped with
\* the local header buffer, the later digits and the newline make a header
\* line of their own, with a smaller number than the payload has bytes
Misframed == [misframed |-> TRUE]

\* what read_command hands to process_command from a misframed frame: the
\* first bytes of the payload, in which no field is whole
Garbled == [garbled |-> TRUE]

\* a mutant: the bytes that arrived last are read first
NextFrameNewest(buf) == buf[Len(buf)]

\* read_command: read() on a stream socket delivers the bytes in the order
\* they arrived, so the frame read is the oldest one not read yet
NextFrame(buf) == Head(buf)

\* read_command: what one call returns and the state it leaves.
\* len > 0: a request was read.  len = 0: nothing to read (EAGAIN), or the
\* header was refused (if (len <= 0 || len >= bufsize) return 0: the header
\* is consumed, the payload stays in the socket, nothing is written), or the
\* header was accepted and the payload is not all there yet (the socket is
\* non-blocking: if (r <= 0) return 0 in the body loop; what was read is
\* dropped and the rest of the payload, once it arrives, is junk), or the
\* header line is not all there yet (return 0 from the header loop: the
\* digits read are dropped), or the
\* peer is gone (read returned 0 or failed), and then the session is closed.
read_command(S) ==
  IF S.client < 0 THEN [S |-> S, len |-> 0, req |-> [cmd |-> "", arg |-> Absent]]
  ELSE IF S.inbuf[S.client] # <<>>
    THEN LET f == NextFrame(S.inbuf[S.client])
             rest == Tail(S.inbuf[S.client])
         IN IF "junk" \in DOMAIN f
              THEN [S |-> [S EXCEPT !.inbuf[S.client] = AfterJunk(rest)],
                    len |-> 0, req |-> [cmd |-> "", arg |-> Absent]]
            ELSE IF "misframed" \in DOMAIN f
              THEN [S |-> [S EXCEPT !.inbuf[S.client] = <<Junk>> \o rest],
                    len |-> 1, req |-> Garbled]
            ELSE IF "cut" \in DOMAIN f /\ f.cut = "prefix"
              THEN [S |-> [S EXCEPT !.inbuf[S.client] = <<Misframed>> \o rest],
                    len |-> 0, req |-> [cmd |-> "", arg |-> Absent]]
            ELSE IF \/ HeaderLen(f) <= 0 \/ HeaderLen(f) >= AI_BUFFER_SIZE
                    \/ "cut" \in DOMAIN f
              THEN [S |-> [S EXCEPT !.inbuf[S.client] = <<Junk>> \o rest],
                    len |-> 0, req |-> [cmd |-> "", arg |-> Absent]]
            ELSE [S |-> [S EXCEPT !.inbuf[S.client] = rest],
                  len |-> HeaderLen(f), req |-> f]
  ELSE IF ~peerOpen[S.client]
    THEN [S |-> [S EXCEPT !.fds = FdsAfterClose(@, S.client), !.client = -1],
          len |-> 0, req |-> [cmd |-> "", arg |-> Absent]]
  ELSE [S |-> S, len |-> 0, req |-> [cmd |-> "", arg |-> Absent]]

(* ------------------------- dispatcher ---------------------------------- *)
NewRun(kind, n) ==
  [kind |-> kind, n |-> n, frames |-> 0, resps |-> 0, st |-> "active",
   sup |-> FALSE]

\* the name the dispatcher compares: the "cmd" string cut to the buffer; ""
\* when the payload has no "cmd" (the requests of the scheduler
\* specification carry the name itself)
CmdType(req) ==
  IF "cmd" \in DOMAIN req
    THEN json_get_string(StrField(req.cmd), CmdTypeSize)
    ELSE ""

\* bitwise and / or of two naturals, as C computes them
RECURSIVE BitAnd(_, _)
BitAnd(a, b) ==
  IF a = 0 \/ b = 0 THEN 0
  ELSE (IF a % 2 = 1 /\ b % 2 = 1 THEN 1 ELSE 0) + 2 * BitAnd(a \div 2, b \div 2)

RECURSIVE BitOr(_, _)
BitOr(a, b) ==
  IF a = 0 THEN b
  ELSE IF b = 0 THEN a
  ELSE (IF a % 2 = 1 \/ b % 2 = 1 THEN 1 ELSE 0) + 2 * BitOr(a \div 2, b \div 2)

\* 0x0F << shift and v << shift, for shift 0 or 4
Shl(v, shift) == IF shift = 0 THEN v ELSE v * 16

\* a mutant: the diagonals are not recognised
StickOfStraight(dir) ==
  IF dir = "up" THEN INPUT_STICK_FORWARD
  ELSE IF dir = "down" THEN INPUT_STICK_BACK
  ELSE IF dir = "left" THEN INPUT_STICK_LEFT
  ELSE IF dir = "right" THEN INPUT_STICK_RIGHT
  ELSE INPUT_STICK_CENTRE

\* process_command (joystick): the stick value of a direction name
StickOf(dir) ==
  IF dir = "up" THEN INPUT_STICK_FORWARD
  ELSE IF dir = "down" THEN INPUT_STICK_BACK
  ELSE IF dir = "left" THEN INPUT_STICK_LEFT
  ELSE IF dir = "right" THEN INPUT_STICK_RIGHT
  ELSE IF dir = "ul" THEN INPUT_STICK_UL
  ELSE IF dir = "ur" THEN INPUT_STICK_UR
  ELSE IF dir = "ll" THEN INPUT_STICK_LL
  ELSE IF dir = "lr" THEN INPUT_STICK_LR
  ELSE INPUT_STICK_CENTRE

\* a mutant: a false fire forces the trigger to its released level
TrigOfReleased(fire) == IF fire # 0 THEN 0 ELSE 1

\* process_command (joystick): AI_trig_override[port] = fire ? 0 : -1
TrigOf(fire) == IF fire # 0 THEN 0 ELSE -1

\* process_command (joystick)
Joystick(S, req) ==
  LET port == json_get_int(Field(req, "port"), 0)
      dir == json_get_string(Field(req, "direction"), DirSize)
      fire == json_get_bool(Field(req, "fire"), 0)
      stick == StickOf(dir)
      T == IF port >= 0 /\ port < NumPorts
             THEN [S EXCEPT !.joy[port] = IF stick = INPUT_STICK_CENTRE
                                            THEN -1 ELSE stick,
                            !.trig[port] = TrigOf(fire),
                            !.lastjoy[port] = [direction |-> dir, fire |-> fire]]
             ELSE S
  IN AI_SendResponse(T, Ok)

\* process_command (paddle): a port in range has its input set
Paddle(S, req) ==
  LET port == json_get_int(Field(req, "port"), 0)
      value == json_get_int(Field(req, "value"), PaddleDefault)
      T == IF port >= 0 /\ port < NumPaddles
             THEN [S EXCEPT !.pot[port] = value]
             ELSE S
  IN AI_SendResponse(T, Ok)

\* the memory image the guest sees: neighbouring addresses, and the two
\* ends of the address space, hold different bytes
MEMORY_SafeGetByte(a) == (a + a \div 256) % 256

\* the addresses below 0xC000 are plain RAM; ROM and the chips' registers
\* lie above
PlainRam(a) == a < 49152

\* MEMORY_PutByte: the byte is stored if the address is plain RAM; a write
\* elsewhere stores nothing
MEMORY_PutByte(mem, a, v) ==
  IF PlainRam(a)
    THEN [x \in DOMAIN mem \cup {a} |-> IF x = a THEN v ELSE mem[x]]
    ELSE mem

\* the byte a read of address a gives: the byte stored there last, or,
\* where nothing was stored, the byte of the image
MemoryRead(mem, a) == IF a \in DOMAIN mem THEN mem[a] ELSE MEMORY_SafeGetByte(a)

\* a mutant: the length is taken as it comes
PeekLenAll(len) == len

\* process_command (peek): if (len > 256) len = 256
PeekLen(len) == IF len > PeekMax THEN PeekMax ELSE len

\* process_command (peek): bytes (UWORD)(addr + i) for i = 0 .. len - 1;
\* the response buffer has room for all of them
Peek(S, req) ==
  LET addr == json_get_int(Field(req, "addr"), 0)
      len == PeekLen(json_get_int(Field(req, "len"), 1))
  IN AI_SendResponse(S,
       Data("data", [i \in 1..len |->
                       MemoryRead(S.mem, (addr + i - 1) % MemSize)]))

\* process_command (poke): the elements of the array are stored one after
\* the other, MEMORY_PutByte((UWORD)addr++, (UBYTE)val), up to the first
\* element that does not start with a digit (a negative number)
RECURSIVE PokeBytes(_, _, _)
PokeBytes(mem, addr, data) ==
  IF data = <<>> THEN mem
  ELSE IF Head(data) < 0 THEN mem
  ELSE PokeBytes(MEMORY_PutByte(mem, addr % MemSize, Head(data) % ByteSize),
                 addr + 1, Tail(data))

\* process_command (poke)
Poke(S, req) ==
  LET addr == json_get_int(Field(req, "addr"), 0)
      data == Field(req, "data")
      T == IF data.k = "array"
             THEN [S EXCEPT !.mem = PokeBytes(S.mem, addr, data.v)]
             ELSE S
  IN AI_SendResponse(T, Ok)

\* process_command (consol): INPUT_key_consol &= ~bit when the flag is false
ConsolClear(c, flag, bit) ==
  IF json_get_bool(flag, 1) = 0 THEN BitAnd(c, 255 - bit) ELSE c

\* process_command (consol)
Consol(S, req) ==
  LET c0 == INPUT_CONSOL_NONE
      c1 == ConsolClear(c0, Field(req, "start"), INPUT_CONSOL_START)
      c2 == ConsolClear(c1, Field(req, "select"), INPUT_CONSOL_SELECT)
      c3 == ConsolClear(c2, Field(req, "option"), INPUT_CONSOL_OPTION)
  IN AI_SendResponse([S EXCEPT !.consol = c3], Ok)

\* a mutant: a register not named in the request is cleared
CpuSetRegClear(old, f, width) == IF f.k = "absent" THEN 0 ELSE atoi(f) % width

\* process_command (cpu_set): a register whose key is in the payload gets
\* atoi of the text after the key, converted to the register's type
CpuSetReg(old, f, width) == IF f.k = "absent" THEN old ELSE atoi(f) % width

\* process_command (cpu_set)
CpuSet(S, req) ==
  LET r == [pc |-> CpuSetReg(S.cpu.pc, Field(req, "pc"), WordSize),
            a  |-> CpuSetReg(S.cpu.a, Field(req, "a"), ByteSize),
            x  |-> CpuSetReg(S.cpu.x, Field(req, "x"), ByteSize),
            y  |-> CpuSetReg(S.cpu.y, Field(req, "y"), ByteSize),
            sp |-> CpuSetReg(S.cpu.sp, Field(req, "sp"), ByteSize)]
  IN AI_SendResponse([S EXCEPT !.cpu = r], Ok)

\* process_command (cpu): the registers are reported
Cpu(S) == AI_SendResponse(S, Data("cpu", S.cpu))

\* a mutant: the read-out leaves the buffer as it is
BufAfterReadKeep(buf) == buf

\* process_command (debug_read): ai_debug_buffer_pos = 0
BufAfterRead(buf) == <<>>

\* a mutant: nothing is sent when there is nothing to read out
DebugReadQuiet(S) ==
  IF S.dbgbuf = <<>> THEN S
  ELSE AI_SendResponse([S EXCEPT !.dbgbuf = <<>>, !.wr = <<>>],
                       Data("data", S.dbgbuf))

\* process_command (debug_read): the bytes stored, in order, then the reset
DebugRead(S) ==
  AI_SendResponse([S EXCEPT !.dbgbuf = BufAfterRead(@), !.wr = <<>>],
                  Data("data", S.dbgbuf))

\* commands answered ok after a call into the emulator that changes no state
\* of this layer
OkCmds == {"reset", "key", "key_release"}
\* commands answered ok with a read-out of emulator state
ReadCmds == {"screen_ascii", "screen_raw", "antic", "gtia",
             "pokey", "pia"}
\* commands whose answer depends on a file operation of the emulator; a
\* request carries the outcome ("extok") the operation is going to have
FileCmds == {"load", "save_state", "load_state", "dump", "screenshot"}

\* process_command (load, save_state, load_state, dump, screenshot)
FileCommand(S, req, cmd_type) ==
  LET path == json_get_string(Field(req, "path"), PathSize)
      extok == Field(req, "extok") = BoolField(TRUE)
  IN IF cmd_type = "screenshot" THEN
       AI_SendResponse(S, IF path # "" /\ ~extok
                            THEN Err("Failed to save screenshot")
                            ELSE Data("path", 0))
     ELSE IF cmd_type = "dump" THEN
       AI_SendResponse(S, IF path = "" THEN Err("No path specified")
                          ELSE IF ~extok THEN Err("Failed to open file")
                          ELSE Data("bytes", 0))
     ELSE
       AI_SendResponse(S, IF path # "" /\ extok THEN Ok
                          ELSE IF cmd_type = "load"
                            THEN Err("Failed to load " \o path)
                          ELSE IF cmd_type = "save_state"
                            THEN Err("Failed to save state")
                          ELSE Err("Failed to load state"))

\* a mutant: an address of 0 is taken for no address and the default used
DebugPortOfNonZero(req) ==
  IF json_get_int(Field(req, "addr"), DebugPortDefault) = 0
    THEN DebugPortDefault
    ELSE json_get_int(Field(req, "addr"), DebugPortDefault)

\* process_command (debug_enable): the address the request arms
DebugPortOf(req) == json_get_int(Field(req, "addr"), DebugPortDefault)

\* a mutant: pause also releases the input overrides
PausedCountersRelease(S) ==
  [S EXCEPT !.paused = 1, !.joy = [p \in Ports |-> -1],
            !.trig = [p \in Ports |-> -1]]

\* process_command (pause): ai_paused = 1
PausedCounters(S) == [S EXCEPT !.paused = 1]

\* process_command: the dispatch on the command name
Handle(S, req) ==
  LET cmd_type == CmdType(req) IN
  IF cmd_type = "ping" THEN AI_SendResponse(S, Pong)
  ELSE IF cmd_type = "run" THEN
    LET n == json_get_int(req.arg, RunDefault) IN
    [S EXCEPT !.frames = n, !.paused = 0,
              !.run = NewRun("run", n),
              !.owner = IF n > 0 THEN [sess |-> S.client, n |-> n]
                                 ELSE NoOwner]
  ELSE IF cmd_type = "step" THEN
    LET n == json_get_int(req.arg, StepDefault) IN
    [S EXCEPT !.steps = n, !.paused = 0,
              !.run = NewRun("step", n)]
  ELSE IF cmd_type = "pause" THEN AI_SendResponse(PausedCounters(S), Ok)
  ELSE IF cmd_type \in OkCmds THEN AI_SendResponse(S, Ok)
  ELSE IF cmd_type = "joystick" THEN Joystick(S, req)
  ELSE IF cmd_type = "paddle" THEN Paddle(S, req)
  ELSE IF cmd_type = "peek" THEN Peek(S, req)
  ELSE IF cmd_type = "poke" THEN Poke(S, req)
  ELSE IF cmd_type = "consol" THEN Consol(S, req)
  ELSE IF cmd_type = "cpu" THEN Cpu(S)
  ELSE IF cmd_type = "cpu_set" THEN CpuSet(S, req)
  ELSE IF cmd_type \in ReadCmds THEN AI_SendResponse(S, Data(cmd_type, 0))
  ELSE IF cmd_type \in FileCmds THEN FileCommand(S, req, cmd_type)
  ELSE IF cmd_type = "debug_enable" THEN
    AI_SendResponse(
      [S EXCEPT !.dbgport = DebugPortOf(req)], Ok)
  ELSE IF cmd_type = "debug_read" THEN DebugRead(S)
  ELSE AI_SendResponse(S, Unknown(cmd_type))

\* process_command, noted in the history
process_command(S, req) == Handle([S EXCEPT !.last = req], req)

(* ------------------------- AI_Frame ------------------------------------ *)
\* a mutant: the counter loses two frames per tick
FramesAfterTickTwo(f) == IF f > 1 THEN f - 2 ELSE 0

\* AI_Frame: ai_frames_to_run--
FramesAfterTick(f) == f - 1

\* a mutant: the counter is decremented whatever it holds
TickDueAlways(f) == TRUE

\* AI_Frame: if (ai_frames_to_run > 0)
TickDue(f) == f > 0

\* AI_Frame: the countdown of ai_frames_to_run and its completion response
TickFrames(S) ==
  IF TickDue(S.frames) THEN
    LET f == FramesAfterTick(S.frames) IN
    IF f = 0 THEN
      LET P == [S EXCEPT !.frames = f, !.paused = 1, !.owner = NoOwner]
      IN ObsPaused(AI_SendResponse(P, FramesRun(S.owner.n)))
    ELSE [S EXCEPT !.frames = f]
  ELSE S

\* a mutant: the drain loop also ends when no request is waiting
DrainCondEager(S) ==
  S.paused # 0 /\ S.client >= 0 /\ S.inbuf[S.client] # <<>>

\* AI_Frame: the condition of the drain loop
DrainCond(S) == S.paused # 0 /\ S.client >= 0

\* AI_Frame: one iteration of the drain loop
DrainBody(S) ==
  LET R == read_command(S) IN
  check_connections(IF R.len > 0 THEN process_command(R.S, R.req) ELSE R.S)

(* ------------------------- input overrides ----------------------------- *)
\* a mutant: the override is or-ed into the polled nibble, not put in its place
JoyApplyMerge(b, shift, v) == BitOr(b, Shl(v, shift)) % 256

\* a mutant: the whole byte is overwritten, the other port's nibble is lost
JoyApplyByte(b, shift, v) == Shl(v, shift) % 256

\* a mutant: the override is added to the byte
JoyApplyAdd(b, shift, v) == (b + Shl(v, shift)) % 256

\* AI_ApplyInput: b &= ~(0x0F << shift); b |= (v << shift), b a UBYTE
JoyApply(b, shift, v) ==
  BitOr(BitAnd(b, 255 - Shl(15, shift)), Shl(v, shift)) % 256

\* AI_ApplyInput on PIA_PORT_input, ports taken in the order i = 0..3
RECURSIVE ApplyJoy(_, _, _)
ApplyJoy(pia, joy, i) ==
  IF i >= NumPorts THEN pia
  ELSE IF joy[i] >= 0
    THEN LET pia_idx == IF i < 2 THEN 0 ELSE 1
             shift == (i % 2) * 4
         IN ApplyJoy([pia EXCEPT ![pia_idx] = JoyApply(@, shift, joy[i])],
                     joy, i + 1)
  ELSE ApplyJoy(pia, joy, i + 1)

\* AI_ApplyInput: GTIA_TRIG[i] = AI_trig_override[i] when it is >= 0
TrigApply(t, o) == IF o >= 0 THEN o ELSE t

\* a mutant: the overrides are applied whether or not the layer is enabled
AI_ApplyInputAlways(regs, joy, trig) ==
  [pia |-> ApplyJoy(regs.pia, joy, 0),
   trig |-> [i \in Ports |-> TrigApply(regs.trig[i], trig[i])]]

\* AI_ApplyInput: the input registers after the overrides are applied
AI_ApplyInput(regs, joy, trig) ==
  IF ~AI_enabled THEN regs
  ELSE [pia |-> ApplyJoy(regs.pia, joy, 0),
        trig |-> [i \in Ports |-> TrigApply(regs.trig[i], trig[i])]]

\* AI_IsPaused: return AI_enabled && ai_paused
AI_IsPaused == AI_enabled /\ ai_paused # 0

\* INPUT_Frame: the poll overwrites the input registers from the host input
INPUT_Frame(h) == [pia |-> h.pia, trig |-> h.trig]

\* host input: nothing held
HwIdle == [pia |-> [i \in 0..1 |-> 255], trig |-> [i \in Ports |-> 1]]
\* host input: sticks held on all ports (0x7D, 0xDB), buttons on ports 1, 2
HwHeld == [pia |-> [i \in 0..1 |-> IF i = 0 THEN 125 ELSE 219],
           trig |-> [i \in Ports |-> IF i \in {1, 2} THEN 0 ELSE 1]]
HwStates == {HwIdle, HwHeld}

(* ------------------------- initial state ------------------------------- *)
\* AI_Initialise: -ai enables, -ai-run enables and starts unpaused; the layer
\* stays enabled only if setup_server_socket succeeds; -ai-debug-port sets
\* the debug address
\* a mutant: the layer starts running whatever the flag
PausedAtStartRun(airun) == 0

\* ai_paused = 1 at its definition; AI_Initialise (-ai-run): ai_paused = 0
PausedAtStart(airun) == IF airun THEN 0 ELSE 1

BootWith(debug_port, q) ==
  \E ai \in BOOLEAN, airun \in BOOLEAN, sockok \in BOOLEAN :
    /\ AI_enabled = ((ai \/ airun) /\ sockok)
    /\ ai_server_fd = IF (ai \/ airun) /\ sockok THEN ListenFd ELSE -1
    /\ ai_client_fd = -1
    /\ ai_paused = PausedAtStart(airun)
    /\ ai_frames_to_run = 0
    /\ ai_steps_to_run = 0
    /\ pc = "host"
    /\ openFds = {}
    /\ backlog = <<>>
    /\ peerOpen = [s \in Sessions |-> FALSE]
    /\ inbuf = [s \in Sessions |-> <<>>]
    /\ outlog = [s \in Sessions |-> <<>>]
    /\ nextSess = 1
    /\ sent = 0
    /\ AI_joy_override = [p \in Ports |-> -1]
    /\ AI_trig_override = [p \in Ports |-> -1]
    /\ AI_debug_port = debug_port
    /\ ai_debug_buffer = <<>>
    /\ obs_dbg = <<>>
    /\ obs_req = NoReq
    /\ obs_joy = [p \in Ports |-> NoJoy]
    /\ PIA_PORT_input = HwIdle.pia
    /\ GTIA_TRIG = HwIdle.trig
    /\ hw = HwIdle
    /\ obs_run = NoRun
    /\ obs_owner = NoOwner
    /\ POKEY_POT_input = [p \in Paddles |-> PotIdle]
    /\ MEMORY_mem = [x \in {} |-> 0]
    /\ INPUT_key_consol = INPUT_CONSOL_NONE
    /\ CPU_regs = [pc |-> 0, a |-> 0, x |-> 0, y |-> 0, sp |-> 255]
    /\ jq = q
    /\ jr = NoResult
    /\ obs_gw = NoStore
    /\ obs_boot = [ai |-> ai, airun |-> airun, sockok |-> sockok,
                   started |-> FALSE]

\* the program after AI_Initialise
Boot(debug_port) == BootWith(debug_port, NoQuery)

\* the program started without -ai-debug-port
Init == Boot(0)

(* ------------------------- the host's frame loop ----------------------- *)
\* AI_Frame up to the head of the drain loop (when the layer is not enabled
\* AI_Frame returns at once: no session exists then and the loop is skipped)
AI_FrameEnter ==
  /\ pc = "host"
  /\ IF ~AI_enabled
       THEN /\ pc' = "loop"
            /\ UNCHANGED <<ai_client_fd, ai_paused, ai_frames_to_run,
                           ai_steps_to_run, openFds, backlog, inbuf, outlog,
                           ctlVars, obs_run, obs_owner>>
       ELSE /\ pc' = "loop"
            /\ Commit(TickFrames(check_connections(Cur)))
  /\ obs_boot' = Started
  /\ UNCHANGED <<AI_enabled, ai_server_fd, envVars, inputVars, sideVars>>

\* AI_Frame: one iteration of while (ai_paused && ai_client_fd >= 0)
AI_FrameDrain ==
  /\ pc = "loop"
  /\ DrainCond(Cur)
  /\ Commit(DrainBody(Cur))
  /\ UNCHANGED <<AI_enabled, ai_server_fd, pc, envVars, inputVars, sideVars,
                 obs_boot>>

\* AI_Frame returns, the drain loop's condition being false, and the
\* emulator executes one frame (the header: AI_Frame is called each frame):
\* INPUT_Frame polls the host input, AI_ApplyInput re-applies the overrides,
\* then the chips consume the input registers.
\* The history counter of an outstanding run or step stops growing once it
\* is past every count a request carries.
Atari800_Frame ==
  /\ pc = "loop"
  /\ ~DrainCond(Cur)
  /\ pc' = "host"
  /\ obs_run' = IF obs_run.st = "active"
                  THEN [obs_run EXCEPT !.frames = IF @ <= MaxN THEN @ + 1 ELSE @]
                  ELSE obs_run
  /\ LET regs == AI_ApplyInput(INPUT_Frame(hw), AI_joy_override, AI_trig_override)
     IN /\ PIA_PORT_input' = regs.pia
        /\ GTIA_TRIG' = regs.trig
  /\ UNCHANGED <<AI_enabled, ai_server_fd, ai_client_fd, ai_paused,
                 ai_frames_to_run, ai_steps_to_run, openFds, backlog, inbuf,
                 outlog, obs_owner, envVars, ctlVars, hw, sideVars,
                 obs_boot>>

(* ------------------------- the peers ----------------------------------- *)
\* the connection of session s is pending or is the attached session; what
\* the peer of any other connection does cannot reach the program
Live(s) == s = ai_client_fd \/ \E i \in 1..Len(backlog) : backlog[i] = s

\* a client connects to the listening socket
ClientConnect ==
  /\ ai_server_fd >= 0
  /\ nextSess <= MaxSessions
  /\ backlog' = Append(backlog, nextSess)
  /\ peerOpen' = [peerOpen EXCEPT ![nextSess] = TRUE]
  /\ nextSess' = nextSess + 1
  /\ UNCHANGED <<AI_enabled, ai_server_fd, ai_client_fd, ai_paused,
                 ai_frames_to_run, ai_steps_to_run, pc, openFds, inbuf, outlog,
                 sent, obs_run, obs_owner, ctlVars, inputVars, sideVars,
                 obs_boot>>

\* a client whose connection is pending or is the session sends one request
ClientSend ==
  \E s \in Sessions, r \in Requests :
    /\ peerOpen[s]
    /\ Live(s)
    /\ sent < MaxCmds
    /\ inbuf' = [inbuf EXCEPT ![s] = Append(@, r)]
    /\ sent' = sent + 1
    /\ UNCHANGED <<AI_enabled, ai_server_fd, ai_client_fd, ai_paused,
                   ai_frames_to_run, ai_steps_to_run, pc, openFds, backlog,
                   peerOpen, outlog, nextSess, obs_run, obs_owner, ctlVars,
                   inputVars, sideVars, obs_boot>>

\* a client whose connection is pending or is the session closes its end
\* (or the connection breaks)
ClientClose ==
  \E s \in Sessions :
    /\ peerOpen[s]
    /\ Live(s)
    /\ peerOpen' = [peerOpen EXCEPT ![s] = FALSE]
    /\ UNCHANGED <<AI_enabled, ai_server_fd, ai_client_fd, ai_paused,
                   ai_frames_to_run, ai_steps_to_run, pc, openFds, backlog,
                   inbuf, outlog, nextSess, sent, obs_run, obs_owner, ctlVars,
                   inputVars, sideVars, obs_boot>>

Next ==
  \/ AI_FrameEnter
  \/ AI_FrameDrain
  \/ Atari800_Frame
  \/ ClientConnect
  \/ ClientSend
  \/ ClientClose

Spec == Init /\ [][Next]_vars

(* ------------------------- input override specification ---------------- *)
\* the joystick requests sent: on the first and the last port, a straight
\* and a diagonal direction with fire, and the release of both
JoyRequests ==
  {[cmd |-> "joystick", port |-> IntField(p), direction |-> StrField(d[1]),
    fire |-> BoolField(d[2])] :
     p \in {0, NumPorts - 1},
     d \in {<<"up", TRUE>>, <<"lr", TRUE>>, <<"center", FALSE>>}}

InputRequests == JoyRequests \cup {[cmd |-> "run", arg |-> Absent]}

\* a client whose connection is pending or is the session sends one request
\* of the alphabet reqs
SendFrom(reqs) ==
  \E s \in Sessions, r \in reqs :
    /\ peerOpen[s]
    /\ Live(s)
    /\ sent < MaxCmds
    /\ inbuf' = [inbuf EXCEPT ![s] = Append(@, r)]
    /\ sent' = sent + 1
    /\ UNCHANGED <<AI_enabled, ai_server_fd, ai_client_fd, ai_paused,
                   ai_frames_to_run, ai_steps_to_run, pc, openFds, backlog,
                   peerOpen, outlog, nextSess, obs_run, obs_owner, ctlVars,
                   inputVars, sideVars, obs_boot>>

ClientSendInput == SendFrom(InputRequests)

\* the user presses or releases keys and sticks of the host
HostInput ==
  /\ \E h \in HwStates : h # hw /\ hw' = h
  /\ UNCHANGED <<AI_enabled, ai_server_fd, ai_client_fd, ai_paused,
                 ai_frames_to_run, ai_steps_to_run, pc, openFds, backlog,
                 inbuf, outlog, obs_run, obs_owner, envVars, ctlVars,
                 PIA_PORT_input, GTIA_TRIG, sideVars, obs_boot>>

NextInput ==
  \/ AI_FrameEnter
  \/ AI_FrameDrain
  \/ Atari800_Frame
  \/ ClientConnect
  \/ ClientSendInput
  \/ ClientClose
  \/ HostInput

SpecInput == Init /\ [][NextInput]_vars

(* ------------------------- debug capture specification ----------------- *)
\* a mutant: when the buffer is full the oldest byte makes room
AI_DebugWriteWrap(buf, byte) ==
  IF Len(buf) < AI_DEBUG_BUFFER_SIZE THEN Append(buf, byte)
  ELSE Append(Tail(buf), byte)

\* AI_DebugWrite: store the byte if there is room
AI_DebugWrite(buf, byte) ==
  IF Len(buf) < AI_DEBUG_BUFFER_SIZE THEN Append(buf, byte) ELSE buf

\* the bytes the guest program writes
DebugBytes == {65, 200}

\* the guest program, executing between two calls of AI_Frame, writes a byte
\* to the debug address and the memory hook hands it to AI_DebugWrite.  The
\* history of writes since the last read-out stops growing one past the
\* capacity.
GuestWriteOf(bytes) ==
  /\ pc = "host"
  /\ AI_debug_port # 0
  /\ Len(obs_dbg) <= AI_DEBUG_BUFFER_SIZE
  /\ \E b \in bytes :
       /\ ai_debug_buffer' = AI_DebugWrite(ai_debug_buffer, b)
       /\ obs_dbg' = Append(obs_dbg, b)
  /\ UNCHANGED <<AI_enabled, ai_server_fd, ai_client_fd, ai_paused,
                 ai_frames_to_run, ai_steps_to_run, pc, openFds, backlog,
                 inbuf, outlog, obs_run, obs_owner, envVars, inputVars,
                 AI_joy_override, AI_trig_override, AI_debug_port, obs_req,
                 obs_joy, POKEY_POT_input, emuVars, sideVars, obs_boot>>

\* the requests sent: guest code runs while no session is attached
GuestWrite == GuestWriteOf(DebugBytes)

DebugRequests == {[cmd |-> "debug_read"], [cmd |-> "debug_enable"]}

ClientSendDebug == SendFrom(DebugRequests)

\* the program started with or without -ai-debug-port
InitDebug == \E a \in {0, DebugPortDefault} : Boot(a)

NextDebug ==
  \/ AI_FrameEnter
  \/ AI_FrameDrain
  \/ Atari800_Frame
  \/ ClientConnect
  \/ ClientSendDebug
  \/ ClientClose
  \/ GuestWrite

SpecDebug == InitDebug /\ [][NextDebug]_vars

(* ------------------------- dispatcher specification -------------------- *)
\* a command name longer than the dispatcher's name buffer
LongName == "a_command_name_of_more_than_31_characters"

\* command names the header documents and the dispatcher has no branch for
ListedOnlyNames == {"breakpoint", "disk_insert", "disk_eject", "disk_status"}

\* names sent that no documentation lists
UnlistedNames == {"bogus", LongName}

\* the requests sent: every command name of the dispatcher, the file commands
\* without a path and with a path on which the file operation succeeds or
\* fails, a request without "cmd", and names the dispatcher does not know
DispatchRequests ==
  {[cmd |-> c] :
     c \in {"ping", "pause", "paddle", "peek", "debug_enable", "debug_read",
            "poke", "consol", "cpu", "cpu_set"}
             \cup OkCmds
             \cup ReadCmds \cup FileCmds \cup ListedOnlyNames
             \cup UnlistedNames}
    \cup {[cmd |-> c, path |-> StrField("f"), extok |-> BoolField(b)] :
            c \in FileCmds, b \in BOOLEAN}
    \cup {[cmd |-> "joystick", port |-> IntField(0),
           direction |-> StrField("up"), fire |-> BoolField(TRUE)]}
    \cup {[arg |-> Absent]}
    \cup {[cmd |-> "run", arg |-> Absent]}

\* the client sends a request once its previous one has been read
ClientSendDispatch ==
  /\ \A s \in Sessions : inbuf[s] = <<>>
  /\ SendFrom(DispatchRequests)

\* the guest program writes the same byte every time
GuestWriteSame == GuestWriteOf({65})

\* the one client of this specification connects
ClientConnectOnce == nextSess = 1 /\ ClientConnect

NextDispatch ==
  \/ AI_FrameEnter
  \/ AI_FrameDrain
  \/ Atari800_Frame
  \/ ClientConnectOnce
  \/ ClientSendDispatch
  \/ ClientClose
  \/ GuestWriteSame

SpecDispatch == InitDebug /\ [][NextDispatch]_vars

(* ------------------------- the framing specification ------------------- *)
\* one command sent under each kind of header line: the payload's length
\* (no "len"), a text that is no number, zero, a negative number, the
\* largest length accepted, the buffer size, and one more than it; and the
\* command sent in two pieces, the second of which has not arrived when the
\* first is read: cut inside the header line ("prefix"), or after it or
\* inside the payload ("payload")
WireRequests ==
  {[cmd |-> "ping"]}
    \cup {[cmd |-> "ping", len |-> l] :
            l \in {StrField("abc"), IntField(0), IntField(-1),
                   IntField(AI_BUFFER_SIZE - 1), IntField(AI_BUFFER_SIZE),
                   IntField(AI_BUFFER_SIZE + 1)}}
    \cup {[cmd |-> "ping", cut |-> c] : c \in {"prefix", "payload"}}

ClientSendWire == SendFrom(WireRequests)

NextWire ==
  \/ AI_FrameEnter
  \/ AI_FrameDrain
  \/ Atari800_Frame
  \/ ClientConnect
  \/ ClientSendWire
  \/ ClientClose

SpecWire == Init /\ [][NextWire]_vars

(* ------------------------- the port-range specification ---------------- *)
\* joystick and paddle requests naming the first and last port of the
\* table and the numbers just outside it
PortRequests ==
  {[cmd |-> "joystick", port |-> IntField(p), direction |-> StrField("up"),
    fire |-> BoolField(TRUE)] : p \in {-1, 0, NumPorts - 1, NumPorts}}
    \cup {[cmd |-> "paddle", port |-> IntField(p), value |-> IntField(v)] :
            p \in {-1, 0, NumPaddles - 1, NumPaddles}, v \in {0, 100}}

ClientSendPorts ==
  /\ \A s \in Sessions : inbuf[s] = <<>>
  /\ SendFrom(PortRequests)

NextPorts ==
  \/ AI_FrameEnter
  \/ AI_FrameDrain
  \/ Atari800_Frame
  \/ ClientConnectOnce
  \/ ClientSendPorts
  \/ ClientClose

SpecPorts == Init /\ [][NextPorts]_vars

(* ------------------------- field extraction on its own ----------------- *)
\* the values a field of a payload can have
FieldShapes ==
  {Absent, IntField(0), IntField(5), IntField(-3), StrField("7"),
   StrField("up"), BoolField(TRUE), BoolField(FALSE), NullField,
   ArrayField(<<1, 2>>)}

\* the calls: which extraction, on what field, with what default (for
\* json_get_string the caller's buffer as initialised, which is what the
\* caller finds in it when the function returns NULL)
Queries ==
  {[ask |-> g, f |-> f, def |-> d] :
     g \in {"int", "bool"}, f \in FieldShapes, d \in {0, 1, PaddleDefault}}
    \cup {[ask |-> "string", f |-> f, buf |-> ""] : f \in FieldShapes}

InitJson == \E q \in Queries : BootWith(0, q)

\* the call is made
JsonGet ==
  /\ jq # NoQuery
  /\ jr = NoResult
  /\ jr' = IF jq.ask = "int" THEN IntField(json_get_int(jq.f, jq.def))
           ELSE IF jq.ask = "bool" THEN IntField(json_get_bool(jq.f, jq.def))
           ELSE StrField(json_get_string(jq.f, DirSize))
  /\ UNCHANGED <<AI_enabled, ai_server_fd, ai_client_fd, ai_paused,
                 ai_frames_to_run, ai_steps_to_run, pc, openFds, backlog,
                 inbuf, outlog, obs_run, obs_owner, envVars, ctlVars,
                 inputVars, jq, obs_gw, obs_boot>>

NextJson == JsonGet

SpecJson == InitJson /\ [][NextJson]_vars

(* ------------------------- the memory-read specification --------------- *)
\* peek at the two ends of the address space with no length, lengths that
\* are not positive, and lengths below, at and above the cap
PeekRequests ==
  {[cmd |-> "peek", addr |-> IntField(a), len |-> l] :
     a \in {0, MemSize - 1},
     l \in {Absent, IntField(0), IntField(-1), IntField(1), IntField(2),
            IntField(PeekMax), IntField(PeekMax + 1), IntField(4 * PeekMax)}}

ClientSendPeek ==
  /\ \A s \in Sessions : inbuf[s] = <<>>
  /\ SendFrom(PeekRequests)

NextPeek ==
  \/ AI_FrameEnter
  \/ AI_FrameDrain
  \/ Atari800_Frame
  \/ ClientConnectOnce
  \/ ClientSendPeek
  \/ ClientClose

SpecPeek == Init /\ [][NextPeek]_vars

(* ------------------------- the write-hook specification ---------------- *)
\* the memory write hook: a guest write reaches AI_DebugWrite when capture
\* is armed and the write is to the armed address
MemHookFires(addr) == AI_debug_port # 0 /\ addr = AI_debug_port

\* a page-6 address a program can arm instead of the default
UserPort == 1536

\* the addresses the guest writes to: 0, the default debug address, its
\* neighbour, and the page-6 address
StoreAddrs == {0, DebugPortDefault, DebugPortDefault - 1, UserPort}

\* the guest program, executing between two calls of AI_Frame, writes a byte
\* to memory
GuestStore ==
  /\ pc = "host"
  /\ \E a \in StoreAddrs :
       /\ obs_gw' = [addr |-> a, byte |-> 65]
       /\ MEMORY_mem' = MEMORY_PutByte(MEMORY_mem, a, 65)
       /\ IF MemHookFires(a)
            THEN /\ ai_debug_buffer' = AI_DebugWrite(ai_debug_buffer, 65)
                 /\ obs_dbg' = IF Len(obs_dbg) <= AI_DEBUG_BUFFER_SIZE
                                 THEN Append(obs_dbg, 65) ELSE obs_dbg
            ELSE UNCHANGED <<ai_debug_buffer, obs_dbg>>
  /\ UNCHANGED <<AI_enabled, ai_server_fd, ai_client_fd, ai_paused,
                 ai_frames_to_run, ai_steps_to_run, pc, openFds, backlog,
                 inbuf, outlog, obs_run, obs_owner, envVars, inputVars,
                 AI_joy_override, AI_trig_override, AI_debug_port, obs_req,
                 obs_joy, POKEY_POT_input, INPUT_key_consol, CPU_regs, jq, jr,
                 obs_boot>>

\* debug_enable with no address, with address 0 and with the page-6 address
HookRequests ==
  {[cmd |-> "debug_enable"]}
    \cup {[cmd |-> "debug_enable", addr |-> IntField(a)] : a \in {0, UserPort}}

ClientSendHook ==
  /\ \A s \in Sessions : inbuf[s] = <<>>
  /\ SendFrom(HookRequests)

NextHook ==
  \/ AI_FrameEnter
  \/ AI_FrameDrain
  \/ Atari800_Frame
  \/ ClientConnectOnce
  \/ ClientSendHook
  \/ ClientClose
  \/ GuestStore

SpecHook == Init /\ [][NextHook]_vars

(* ========================= properties ================================== *)
\* the run or step last dispatched has not been cut short by a new connection
Undisturbed == obs_run.st # "none" /\ ~obs_run.sup

\* this step reads a request from the session and dispatches it
Dispatches ==
  /\ pc = "loop"
  /\ DrainCond(Cur)
  /\ inbuf[ai_client_fd] # <<>>
  /\ read_command(Cur).len > 0
  /\ inbuf'[ai_client_fd] = Tail(inbuf[ai_client_fd])

\* C1: a run of n >= 1 frames that no new connection disturbs executes
\* exactly n emulator frames between its dispatch and the return to Paused,
\* and one response is sent for it, at that return and not before: while it
\* is outstanding no response has been sent and at most n frames have run.
C1_RunExactFrames ==
  (Undisturbed /\ obs_run.kind = "run" /\ obs_run.n >= 1) =>
    IF obs_run.st = "done"
      THEN obs_run.frames = obs_run.n /\ obs_run.resps = 1
      ELSE obs_run.frames <= obs_run.n /\ obs_run.resps = 0 /\ ai_paused = 0

\* a run of MaxN frames has completed undisturbed
C1_Witness ==
  /\ Undisturbed /\ obs_run.kind = "run" /\ obs_run.st = "done"
  /\ obs_run.n = MaxN /\ obs_run.frames = MaxN

\* this step writes a run-completion response to session s
CompletionSentTo(s) ==
  /\ Len(outlog'[s]) = Len(outlog[s]) + 1
  /\ outlog'[s][Len(outlog'[s])].key = "frames_run"

\* this step counts the frame counter down to zero
Exhausts == pc = "host" /\ ai_frames_to_run > 0 /\ ai_frames_to_run' = 0

\* C2: the response that completes run {frames: n} reports frames_run = n.
C2_ReportsFramesRun ==
  [][\A s \in Sessions :
       CompletionSentTo(s) => outlog'[s][Len(outlog'[s])].val = obs_owner.n]_vars

\* instructions executed since the dispatch of the outstanding run or step
InstrElapsed == obs_run.frames * InstrPerFrame

\* C3: after step {instructions: n}, n >= 1, the scheduler stays non-Paused
\* until exactly n instructions have elapsed, then is Paused with exactly one
\* response sent: while the step is outstanding no more than n instructions
\* have elapsed, and once it is over exactly n have.
C3_StepExactInstructions ==
  (Undisturbed /\ obs_run.kind = "step" /\ obs_run.n >= 1) =>
    IF obs_run.st = "done"
      THEN InstrElapsed = obs_run.n /\ obs_run.resps = 1
      ELSE InstrElapsed <= obs_run.n /\ obs_run.resps = 0 /\ ai_paused = 0

\* the work a run or step asks for: frames of a run, instructions of a step
\* (a count below 1 asks for nothing; one unit is granted, being the
\* granularity at which AI_Frame looks at its counters)
WorkAsked == IF obs_run.n >= 1 THEN obs_run.n ELSE 1
WorkDone == IF obs_run.kind = "run" THEN obs_run.frames ELSE InstrElapsed

\* C4: every dispatched run or step, whatever its count (missing, 0 and
\* negative included), gets exactly one response, when the requested work is
\* complete and not before, and the scheduler is Paused then: while it is
\* outstanding the emulator has not gone past the requested work.
C4_OneResponsePerRunStep ==
  Undisturbed =>
    IF obs_run.st = "done"
      THEN obs_run.resps = 1 /\ ai_paused = 1
      ELSE obs_run.resps = 0 /\ WorkDone <= WorkAsked

\* C5: whenever a new connection is adopted, the previous session's
\* descriptor is closed (the new one is the only one open) and the scheduler
\* is Paused afterwards, whatever state it was in.
C5_ReconnectPauses ==
  [][(ai_client_fd' # ai_client_fd /\ ai_client_fd' >= 0) =>
       (ai_paused' = 1 /\ openFds' = {ai_client_fd'})]_vars

\* a connection was adopted while a run had frames left and the first peer
\* was still there: the run is cut short, the scheduler Paused
C5_Witness ==
  /\ obs_run.kind = "run" /\ obs_run.sup /\ ai_frames_to_run > 0
  /\ ai_client_fd = 2 /\ peerOpen[1] /\ ai_paused = 1

\* C6: at most one client descriptor is open, and it is the session's.
C6_OneSession ==
  /\ Cardinality(openFds) <= 1
  /\ openFds = IF ai_client_fd >= 0 THEN {ai_client_fd} ELSE {}

\* the second connection has replaced the first while the first peer was
\* still connected
C6_Witness ==
  /\ ai_client_fd = 2 /\ openFds = {2} /\ peerOpen[1] /\ peerOpen[2]
  /\ outlog[1] # <<>>

\* C7: each exhaustion of the frame counter sends one response, and sends it
\* to the session that issued the run.
C7_ResponseToRequester ==
  [][/\ Exhausts => (obs_owner.sess \in Sessions
                        /\ CompletionSentTo(obs_owner.sess))
     /\ \A s \in Sessions : CompletionSentTo(s) => s = obs_owner.sess]_vars

\* C8: a request is dispatched only when both counters are zero.
C8_NoDispatchWhileCounting ==
  [][Dispatches => (ai_frames_to_run = 0 /\ ai_steps_to_run = 0)]_vars

\* this step is AI_Frame returning and the emulator executing a frame
FrameExecutes == pc = "loop" /\ pc' = "host"

\* C9: AI_Frame returns, and the emulator executes a frame, only from a state
\* in which it is not the case that the scheduler is Paused with a session
\* attached.
C9_NoFrameWhilePausedAttached ==
  [][FrameExecutes => ~(ai_paused # 0 /\ ai_client_fd >= 0)]_vars

\* AI_Frame has returned with a session attached, a run having left Paused,
\* and a frame of that run has executed
C9_Witness ==
  /\ pc = "host" /\ ai_client_fd >= 0 /\ ai_paused = 0
  /\ obs_run.kind = "run" /\ obs_run.st = "active" /\ obs_run.frames > 0

\* C10: when the session goes away while Paused, its descriptor is closed
\* and the scheduler is still Paused; and the scheduler leaves Paused only in
\* a step that dispatches a run or step read from the attached session.
C10_DisconnectStaysPaused ==
  [][/\ (ai_paused # 0 /\ ai_client_fd >= 0 /\ ai_client_fd' # ai_client_fd)
          => (ai_paused' # 0 /\ ai_client_fd \notin openFds')
     /\ (ai_paused # 0 /\ ai_paused' = 0)
          => (Dispatches /\ Head(inbuf[ai_client_fd]).cmd \in {"run", "step"})
    ]_vars

\* the only session so far was attached while Paused, its peer closed, the
\* session was torn down, and emulator frames go on with the scheduler Paused
C10_Witness ==
  /\ AI_enabled /\ nextSess = 2 /\ backlog = <<>> /\ ~peerOpen[1]
  /\ ai_client_fd = -1 /\ openFds = {} /\ ai_paused = 1 /\ pc = "host"

(* ------------------------- dispatcher properties ----------------------- *)
\* the request this step reads, in a step that dispatches
Dispatched == Head(inbuf[ai_client_fd])

\* this step writes exactly one response, and writes it to session s
OneResponseTo(s) ==
  /\ Len(outlog'[s]) = Len(outlog[s]) + 1
  /\ SubSeq(outlog'[s], 1, Len(outlog[s])) = outlog[s]
  /\ \A t \in Sessions \ {s} : outlog'[t] = outlog[t]

\* the response this step writes to session s
Response(s) == outlog'[s][Len(outlog'[s])]

\* C11: a step that dispatches a command other than run and step writes
\* exactly one response to the session, in that same step and so before the
\* next request is read, and leaves the paused flag and both counters as
\* they were.
C11_OneResponseStateKept ==
  [][(Dispatches /\ CmdType(Dispatched) \notin {"run", "step"}) =>
       /\ OneResponseTo(ai_client_fd)
       /\ Response(ai_client_fd).status \in {"ok", "error"}
       /\ ai_paused' = ai_paused
       /\ ai_frames_to_run' = ai_frames_to_run
       /\ ai_steps_to_run' = ai_steps_to_run]_vars

\* two requests were dispatched and answered, the last a read-out of the
\* empty debug buffer, and the session is attached and Paused
C11_Witness ==
  /\ ai_client_fd = 1 /\ ai_paused = 1 /\ Len(outlog[1]) = 2
  /\ CmdType(obs_req) = "debug_read" /\ outlog[1][2] = Data("data", <<>>)

\* C12: a step that dispatches pause (the scheduler is Paused whenever the
\* drain loop dispatches) answers ok and changes nothing else: paused flag,
\* counters, override table, debug buffer and address, and session are the
\* same after as before; and dispatching it twice leaves the state
\* dispatching it once leaves, but for the second ok.
C12_PauseIdempotent ==
  [][(Dispatches /\ CmdType(Dispatched) = "pause") =>
       /\ ai_paused = 1
       /\ OneResponseTo(ai_client_fd)
       /\ Response(ai_client_fd) = Ok
       /\ UNCHANGED <<ai_paused, ai_frames_to_run, ai_steps_to_run,
                      AI_joy_override, AI_trig_override, ai_debug_buffer,
                      AI_debug_port, ai_client_fd, openFds>>
       /\ LET Once == process_command(Cur, Dispatched)
              Twice == process_command(Once, Dispatched)
          IN /\ [Twice EXCEPT !.outlog = Once.outlog] = Once
             /\ Twice.outlog[ai_client_fd] = Append(Once.outlog[ai_client_fd], Ok)
    ]_vars

\* pause was dispatched after a joystick request had set an override, with
\* bytes in the debug buffer; both were answered ok
C12_Witness ==
  /\ CmdType(obs_req) = "pause" /\ ai_client_fd = 1 /\ ai_paused = 1
  /\ AI_joy_override[0] = INPUT_STICK_FORWARD /\ AI_trig_override[0] = 0
  /\ ai_debug_buffer # <<>> /\ outlog[1] = <<Ok, Ok>>

(* ------------------------- input override properties ------------------- *)
\* the four direction lines of port p in the port-input bytes
Nibble(pia, p) ==
  (pia[IF p < 2 THEN 0 ELSE 1] \div (IF p % 2 = 0 THEN 1 ELSE 16)) % 16

\* the joystick request dispatched last for port p held a direction and fire
HeldByAgent(p) ==
  /\ obs_joy[p].fire = 1
  /\ obs_joy[p].direction \in {"up", "down", "left", "right", "ul", "ur",
                               "ll", "lr"}

\* C13: in every frame executed after joystick {port p, direction d other
\* than center, fire true} and before another joystick request for port p,
\* the input registers the chips read after the apply step show d on port
\* p's direction lines and trigger p pressed, whatever the poll read.
C13_OverrideHolds ==
  [][FrameExecutes =>
       \A p \in Ports :
         HeldByAgent(p) =>
           /\ Nibble(PIA_PORT_input', p) = StickOf(obs_joy[p].direction)
           /\ GTIA_TRIG'[p] = 0]_vars

\* a frame has executed with "up" and fire set on port 0 by the agent while
\* the host held "down" and no button on that port
C13_Witness ==
  /\ pc = "host" /\ obs_joy[0] = [direction |-> "up", fire |-> 1]
  /\ hw = HwHeld /\ Nibble(hw.pia, 0) = INPUT_STICK_BACK /\ hw.trig[0] = 1
  /\ Nibble(PIA_PORT_input, 0) = INPUT_STICK_FORWARD /\ GTIA_TRIG[0] = 0

\* C14: the apply step of a frame leaves the polled direction nibble of
\* every port whose directional entry is no-override as the poll wrote it,
\* and the polled trigger of every port whose trigger entry is no-override.
C14_NoOverridePassesThrough ==
  [][FrameExecutes =>
       \A p \in Ports :
         /\ AI_joy_override[p] = -1 =>
              Nibble(PIA_PORT_input', p) = Nibble(INPUT_Frame(hw).pia, p)
         /\ AI_trig_override[p] = -1 =>
              GTIA_TRIG'[p] = INPUT_Frame(hw).trig[p]]_vars

\* a frame has executed with an override on port 0 and none on port 1, which
\* shares its port-input byte: port 1 shows what the host holds
C14_Witness ==
  /\ pc = "host" /\ hw = HwHeld
  /\ AI_joy_override[0] = INPUT_STICK_FORWARD /\ AI_joy_override[1] = -1
  /\ AI_trig_override[1] = -1
  /\ Nibble(PIA_PORT_input, 0) = INPUT_STICK_FORWARD
  /\ Nibble(PIA_PORT_input, 1) = Nibble(HwHeld.pia, 1)
  /\ GTIA_TRIG[1] = 0

\* some entry of the override table is set
OverrideSet ==
  \E p \in Ports : AI_joy_override[p] # -1 \/ AI_trig_override[p] # -1

\* C15: a step in which the session goes away (its peer has disconnected, or
\* a new connection replaces it) while overrides are set leaves every
\* directional and trigger entry of the override table at no-override.
C15_DisconnectResetsOverrides ==
  [][(ai_client_fd >= 0 /\ ai_client_fd' # ai_client_fd /\ OverrideSet) =>
       \A p \in Ports :
         AI_joy_override'[p] = -1 /\ AI_trig_override'[p] = -1]_vars

(* ------------------------- debug capture properties -------------------- *)
\* this step hands a guest write to AI_DebugWrite
Appends == Len(obs_dbg') = Len(obs_dbg) + 1

\* C16: a step that dispatches debug_read answers with the bytes appended
\* since the buffer was last empty (since the start, or since the previous
\* debug_read), in append order, when they are no more than the capacity,
\* so with none when nothing was appended since the previous debug_read;
\* and it leaves the buffer empty.
C16_DebugReadReturnsAppended ==
  [][(Dispatches /\ CmdType(Dispatched) = "debug_read") =>
       /\ OneResponseTo(ai_client_fd)
       /\ Response(ai_client_fd).status = "ok"
       /\ Response(ai_client_fd).key = "data"
       /\ Len(obs_dbg) <= AI_DEBUG_BUFFER_SIZE =>
            Response(ai_client_fd).val = obs_dbg
       /\ ai_debug_buffer' = <<>>]_vars

\* the guest filled the buffer with two different bytes; the first debug_read
\* returned them in order, the second, sent right after, returned none
C16_Witness ==
  /\ ai_client_fd = 1 /\ Len(outlog[1]) = 2 /\ ai_debug_buffer = <<>>
  /\ outlog[1][1].key = "data"
  /\ Len(outlog[1][1].val) = AI_DEBUG_BUFFER_SIZE
  /\ outlog[1][1].val[1] # outlog[1][1].val[2]
  /\ outlog[1][2] = Data("data", <<>>)

\* C17: the fill level of the debug buffer is always within 0..capacity, and
\* an append made when the buffer is full leaves the bytes stored as they
\* are, the new byte being dropped.
C17_DebugBufferBounded ==
  /\ [](Len(ai_debug_buffer) \in 0..AI_DEBUG_BUFFER_SIZE)
  /\ [][(Appends /\ Len(ai_debug_buffer) = AI_DEBUG_BUFFER_SIZE) =>
          ai_debug_buffer' = ai_debug_buffer]_vars
  /\ [][(Appends /\ Len(ai_debug_buffer) < AI_DEBUG_BUFFER_SIZE) =>
          ai_debug_buffer' =
            Append(ai_debug_buffer, obs_dbg'[Len(obs_dbg')])]_vars

\* one byte more than the capacity was written: the buffer holds the first
\* bytes, and the byte dropped differs from the byte stored last
C17_Witness ==
  /\ Len(obs_dbg) = AI_DEBUG_BUFFER_SIZE + 1
  /\ ai_debug_buffer = SubSeq(obs_dbg, 1, AI_DEBUG_BUFFER_SIZE)
  /\ obs_dbg[AI_DEBUG_BUFFER_SIZE + 1] # obs_dbg[AI_DEBUG_BUFFER_SIZE]

(* ------------------------- unknown commands ---------------------------- *)
\* the command name a request carries; "" when it has no "cmd"
NameSent(req) == IF "cmd" \in DOMAIN req THEN req.cmd ELSE ""

\* the names process_command has a branch for
KnownNames ==
  {"ping", "run", "step", "pause", "joystick", "paddle", "peek",
   "debug_enable", "debug_read", "poke", "consol", "cpu", "cpu_set"}
    \cup OkCmds \cup ReadCmds \cup FileCmds

\* the session stays and scheduler state, override table, debug buffer and
\* debug address are as before
SessionAndStateKept ==
  UNCHANGED <<ai_client_fd, openFds, ai_paused, ai_frames_to_run,
              ai_steps_to_run, AI_joy_override, AI_trig_override,
              ai_debug_buffer, AI_debug_port>>

\* C18 as stated: a step that dispatches a request whose command name is
\* not recognised (a request without "cmd" included) writes exactly one
\* error response, which names the command received; the session stays
\* attached and scheduler state, override table, debug buffer and debug
\* address are unchanged.
C18_UnknownNamesCommand ==
  [][(Dispatches /\ NameSent(Dispatched) \notin KnownNames) =>
       /\ OneResponseTo(ai_client_fd)
       /\ Response(ai_client_fd) =
            Err("Unknown command: " \o NameSent(Dispatched))
       /\ SessionAndStateKept]_vars

\* the first 31 characters of a name
First31(name) == IF Len(name) > 31 THEN SubSeq(name, 1, 31) ELSE name

\* C18 amended: as stated, but the error response names the command by its
\* first 31 characters, all the dispatcher keeps of the name.
C18_UnknownNamesCommandCut ==
  [][(Dispatches /\ NameSent(Dispatched) \notin KnownNames) =>
       /\ OneResponseTo(ai_client_fd)
       /\ Response(ai_client_fd) =
            Err("Unknown command: " \o First31(NameSent(Dispatched)))
       /\ SessionAndStateKept]_vars

\* with an override set, a request naming a command of more than 31
\* characters was answered with the error naming its first 31, and the
\* session is still attached
C18_Witness ==
  /\ ai_client_fd = 1 /\ obs_req = [cmd |-> LongName]
  /\ Len(LongName) > 31 /\ AI_joy_override[0] = INPUT_STICK_FORWARD
  /\ Len(outlog[1]) = 2
  /\ outlog[1][2] = Err("Unknown command: " \o SubSeq(LongName, 1, 31))

\* the command names the specification and the header list
ListedNames == KnownNames \cup ListedOnlyNames

\* C19: a request naming a command the specification and the header list is
\* never answered with the unknown-command error.
C19_ListedCommandsHandled ==
  [][(Dispatches /\ NameSent(Dispatched) \in ListedNames
        /\ Len(outlog'[ai_client_fd]) > Len(outlog[ai_client_fd])) =>
       Response(ai_client_fd) # Unknown(NameSent(Dispatched))]_vars


(* ------------------------- framing properties -------------------------- *)
\* this step of the drain loop reads from the head of the session's socket
ReadsHead ==
  /\ pc = "loop"
  /\ DrainCond(Cur)
  /\ inbuf[ai_client_fd] # <<>>
  /\ inbuf'[ai_client_fd] # inbuf[ai_client_fd]
  /\ Len(inbuf'[ai_client_fd]) <= Len(inbuf[ai_client_fd])

\* the frame's header line is no number, or a number that is not positive,
\* or a number larger than the buffer size
BadPrefix(f) ==
  /\ "junk" \notin DOMAIN f
  /\ \/ Field(f, "len").k = "str"
     \/ /\ Field(f, "len").k = "int"
        /\ Field(f, "len").v <= 0 \/ Field(f, "len").v > AI_BUFFER_SIZE

\* C20: a step that reads a frame whose length prefix is malformed,
\* non-positive or larger than the buffer size writes exactly one response
\* to the session, of status error and with a message, and the session
\* stays attached.
C20_BadPrefixAnswered ==
  [][(ReadsHead /\ BadPrefix(Head(inbuf[ai_client_fd]))) =>
       /\ OneResponseTo(ai_client_fd)
       /\ Response(ai_client_fd).status = "error"
       /\ Response(ai_client_fd).key = "msg"
       /\ Response(ai_client_fd).val # ""
       /\ ai_client_fd' = ai_client_fd]_vars

(* ------------------------- error-handling properties ------------------- *)
\* the request names a port the command has none of
PortOutOfRange(req) ==
  \/ /\ CmdType(req) = "joystick"
     /\ json_get_int(Field(req, "port"), 0) \notin Ports
  \/ /\ CmdType(req) = "paddle"
     /\ json_get_int(Field(req, "port"), 0) \notin Paddles

\* C21: a step that dispatches a joystick command with a port outside 0..3
\* or a paddle command with a port outside 0..7 writes one response of
\* status error and leaves the override table and the paddle inputs as
\* they were.
C21_BadPortRefused ==
  [][(Dispatches /\ PortOutOfRange(Dispatched)) =>
       /\ OneResponseTo(ai_client_fd)
       /\ Response(ai_client_fd).status = "error"
       /\ UNCHANGED <<AI_joy_override, AI_trig_override, POKEY_POT_input>>]_vars

\* the file operation the request asks for is going to succeed
ExtOk(req) == Field(req, "extok") = BoolField(TRUE)

\* C22: a step that dispatches load, save_state, load_state, dump or
\* screenshot writes one response, whose status is ok only if the file
\* operation succeeded; it is error whenever the operation fails, and
\* whenever a command other than screenshot (which has a default path)
\* comes without a path.
C22_FileFailureIsError ==
  [][(Dispatches /\ CmdType(Dispatched) \in FileCmds) =>
       /\ OneResponseTo(ai_client_fd)
       /\ ~ExtOk(Dispatched) => Response(ai_client_fd).status = "error"
       /\ (CmdType(Dispatched) # "screenshot"
             /\ Field(Dispatched, "path").k # "str") =>
            Response(ai_client_fd).status = "error"]_vars

(* ------------------------- field-extraction properties ----------------- *)
\* the field has the shape the extraction asks for
ShapeMatches(q) ==
  \/ q.ask = "int" /\ q.f.k = "int"
  \/ q.ask = "bool" /\ q.f.k = "bool"
  \/ q.ask = "string" /\ q.f.k = "str"

\* the value of a field of the matching shape, as the extraction reports it
ValueOf(q) ==
  IF q.ask = "bool" THEN (IF q.f.v THEN 1 ELSE 0) ELSE q.f.v

\* C23: an extraction returns the field's value when the field has the
\* shape asked for, and the caller's default when the field is missing or
\* has any other shape.
C23_ExtractionDefaults ==
  jr # NoResult =>
    jr.v = IF ShapeMatches(jq) THEN ValueOf(jq)
           ELSE IF jq.ask = "string" THEN jq.buf ELSE jq.def

(* ------------------------- start-up and scheduler properties ----------- *)
\* C24: until AI_Frame is first called the scheduler is Paused unless the
\* run variant of the enable flag was given, and non-Paused if it was; and
\* every step that attaches a newly accepted connection leaves Paused.
C24_StartsPaused ==
  /\ [](~obs_boot.started => (ai_paused = 0 <=> obs_boot.airun))
  /\ [][(ai_client_fd' # ai_client_fd /\ ai_client_fd' >= 0) =>
          ai_paused' = 1]_vars

\* the layer was started with the run variant, is not Paused, and a
\* connection is waiting to be accepted
C24_Witness ==
  /\ AI_enabled /\ ~obs_boot.started /\ obs_boot.airun
  /\ ai_paused = 0 /\ backlog # <<>>

\* C25: frames remaining and instructions remaining are never both positive.
C25_OneCounterCounted == ~(ai_frames_to_run > 0 /\ ai_steps_to_run > 0)

\* the state of the three-state machine the scheduler variables stand for:
\* Paused, RunningFrames(n), RunningInstructions(n), the free-running start
\* (not paused, nothing counted, no run or step dispatched so far), and
\* "none" when they stand for no state of the machine
SchedState ==
  IF ai_paused # 0 /\ ai_frames_to_run = 0 /\ ai_steps_to_run = 0
    THEN [st |-> "Paused", n |-> 0]
  ELSE IF ai_paused = 0 /\ ai_frames_to_run >= 1 /\ ai_steps_to_run = 0
    THEN [st |-> "RunningFrames", n |-> ai_frames_to_run]
  ELSE IF ai_paused = 0 /\ ai_steps_to_run >= 1 /\ ai_frames_to_run = 0
    THEN [st |-> "RunningInstructions", n |-> ai_steps_to_run]
  ELSE IF ai_paused = 0 /\ ai_frames_to_run = 0 /\ ai_steps_to_run = 0
          /\ obs_run = NoRun
    THEN [st |-> "FreeRunning", n |-> 0]
  ELSE [st |-> "none", n |-> 0]

\* SchedState after the step
SchedStateNext ==
  IF ai_paused' # 0 /\ ai_frames_to_run' = 0 /\ ai_steps_to_run' = 0
    THEN [st |-> "Paused", n |-> 0]
  ELSE IF ai_paused' = 0 /\ ai_frames_to_run' >= 1 /\ ai_steps_to_run' = 0
    THEN [st |-> "RunningFrames", n |-> ai_frames_to_run']
  ELSE IF ai_paused' = 0 /\ ai_steps_to_run' >= 1 /\ ai_frames_to_run' = 0
    THEN [st |-> "RunningInstructions", n |-> ai_steps_to_run']
  ELSE IF ai_paused' = 0 /\ ai_frames_to_run' = 0 /\ ai_steps_to_run' = 0
          /\ obs_run' = NoRun
    THEN [st |-> "FreeRunning", n |-> 0]
  ELSE [st |-> "none", n |-> 0]

\* a transition of the machine of section 4.3: none; run and step from
\* Paused; the frame tick of RunningFrames(n), to RunningFrames(n - 1) or,
\* from RunningFrames(1), to Paused; and the forced pause of a new session
MachineStep(a, b) ==
  \/ b = a
  \/ /\ a.st = "Paused" /\ Dispatches /\ CmdType(Dispatched) = "run"
     /\ b.st = "RunningFrames"
  \/ /\ a.st = "Paused" /\ Dispatches /\ CmdType(Dispatched) = "step"
     /\ b.st = "RunningInstructions"
  \/ /\ a.st = "RunningFrames" /\ a.n > 1
     /\ b = [st |-> "RunningFrames", n |-> a.n - 1]
  \/ a.st = "RunningFrames" /\ a.n = 1 /\ b.st = "Paused"
  \/ a.st = "RunningInstructions" /\ a.n = 1 /\ b.st = "Paused"
  \/ /\ b.st = "Paused"
     /\ ai_client_fd' # ai_client_fd /\ ai_client_fd' >= 0

\* C30: in every reachable state the scheduler variables stand for exactly
\* one state of the three-state machine (or the free-running start), and
\* every step is a transition of that machine.
C30_SchedulerRefines ==
  /\ [](SchedState.st # "none")
  /\ [][MachineStep(SchedState, SchedStateNext)]_vars

(* ------------------------- ordering properties ------------------------- *)
\* this step is an iteration of the drain loop (the peers' steps change
\* what the peers own)
DrainStep == pc = "loop" /\ DrainCond(Cur) /\ UNCHANGED envVars

\* this step writes a response to session s
RespondsTo(s) == Len(outlog'[s]) > Len(outlog[s])

\* C26: an iteration of the drain loop that finds requests waiting
\* dispatches the one that arrived first and leaves the others waiting in
\* their order (or drops them all with the session); no step takes back or
\* reorders what a session was sent, a response written by a dispatching
\* step goes to the dispatched command's session, and a response written to
\* a session by any other step is the completion of a run that is the
\* command dispatched last, whenever that run is the session's own.
C26_ArrivalOrder ==
  [][/\ (DrainStep /\ inbuf[ai_client_fd] # <<>>) =>
          /\ obs_req' = Head(inbuf[ai_client_fd])
          /\ \/ inbuf'[ai_client_fd] = Tail(inbuf[ai_client_fd])
             \/ /\ ai_client_fd' # ai_client_fd
                /\ inbuf'[ai_client_fd] = <<>>
          /\ \A s \in Sessions : RespondsTo(s) => s = ai_client_fd
     /\ \A s \in Sessions :
          /\ Len(outlog'[s]) \in {Len(outlog[s]), Len(outlog[s]) + 1}
          /\ SubSeq(outlog'[s], 1, Len(outlog[s])) = outlog[s]
          /\ (RespondsTo(s) /\ ~DrainStep) =>
               /\ Response(s).key = "frames_run"
               /\ obs_owner.sess = s => CmdType(obs_req) = "run"]_vars

\* two requests were waiting on session 1; the older one, pause, has been
\* dispatched and answered while the newer one, ping, still waits
C26_Witness ==
  /\ ai_client_fd = 1 /\ sent = 2
  /\ CmdType(obs_req) = "pause" /\ outlog[1] = <<Ok>>
  /\ Len(inbuf[1]) = 1 /\ CmdType(Head(inbuf[1])) = "ping"

(* ------------------------- memory-read properties ---------------------- *)
\* the length a peek request asks for: 1 when it names none
AskedLen(req) ==
  IF Field(req, "len").k = "int" THEN Field(req, "len").v ELSE 1

\* the smaller of two numbers
Min(a, b) == IF a < b THEN a ELSE b

\* C27: a step that dispatches peek {addr: a, len: L} answers ok with a
\* byte array: of exactly min(L, 256) bytes when L >= 1, of at most 256
\* bytes whatever L, and with the memory byte at (a + i) mod 65536 as its
\* i-th byte, counting from 0.
C27_PeekClamped ==
  [][(Dispatches /\ CmdType(Dispatched) = "peek") =>
       /\ OneResponseTo(ai_client_fd)
       /\ Response(ai_client_fd).status = "ok"
       /\ Response(ai_client_fd).key = "data"
       /\ LET L == AskedLen(Dispatched)
              a == Field(Dispatched, "addr").v
              data == Response(ai_client_fd).val
          IN /\ L >= 1 => Len(data) = Min(L, 256)
             /\ Len(data) <= 256
             /\ \A i \in 0..(Len(data) - 1) :
                  data[i + 1] = MEMORY_SafeGetByte((a + i) % 65536)]_vars

\* a peek of 1024 bytes at the last address was answered with 256 bytes,
\* the first the byte at 65535 and the second the byte at address 0
C27_Witness ==
  /\ CmdType(obs_req) = "peek" /\ AskedLen(obs_req) = 4 * PeekMax
  /\ Field(obs_req, "addr").v = MemSize - 1
  /\ Len(outlog[1]) = 1 /\ outlog[1][1].key = "data"
  /\ Len(outlog[1][1].val) = PeekMax
  /\ outlog[1][1].val[1] = MEMORY_SafeGetByte(MemSize - 1)
  /\ outlog[1][1].val[2] = MEMORY_SafeGetByte(0)

(* ------------------------- write-hook properties ----------------------- *)
\* this step is a write of the guest to memory
GuestStores == pc = "host" /\ obs_gw' # obs_gw

LengthInRange(f) ==
  \/ Field(f, "len").k = "absent"
  \/ /\ Field(f, "len").k = "int"
     /\ Field(f, "len").v >= 1 /\ Field(f, "len").v <= 65536

\* C29: a step that reads the header of a frame dispatches the frame's
\* request (and so answers it: the requests here are all ping) if and only
\* if the declared length L satisfies 1 <= L <= 65536.
C29_LengthBound ==
  [][(ReadsHead /\ "junk" \notin DOMAIN Head(inbuf[ai_client_fd])) =>
       ((RespondsTo(ai_client_fd) /\ obs_req' = Head(inbuf[ai_client_fd]))
          <=> LengthInRange(Head(inbuf[ai_client_fd])))]_vars

(* ------------------------- split-arrival properties -------------------- *)
\* C31: an iteration of the drain loop that finds a frame of which only a
\* first piece has arrived (cut inside the length prefix, after it, or
\* inside the payload) reports no request and discards nothing: the bytes
\* received stay where they are (unless the session is replaced) and no
\* response is written, so that the request can be dispatched intact once
\* the rest has arrived and the frames behind it keep their framing.
C31_SplitFrameKept ==
  [][(DrainStep /\ inbuf[ai_client_fd] # <<>>
        /\ "cut" \in DOMAIN Head(inbuf[ai_client_fd])) =>
       /\ outlog' = outlog
       /\ \/ inbuf'[ai_client_fd] = inbuf[ai_client_fd]
          \/ ai_client_fd' # ai_client_fd]_vars

(* ------------------------- the joystick specification ------------------ *)
\* joystick requests: every named direction with fire on the first port;
\* on the last port one direction, "center", no direction and a name that
\* is none of the eight, each with fire true, false and missing
JoyDirRequests ==
  {[cmd |-> "joystick", port |-> IntField(0), direction |-> StrField(d),
    fire |-> BoolField(TRUE)] :
     d \in {"up", "down", "left", "right", "ul", "ur", "ll", "lr"}}
    \cup {[cmd |-> "joystick", port |-> IntField(NumPorts - 1),
            direction |-> d, fire |-> f] :
            d \in {StrField("down"), StrField("center"), Absent,
                   StrField("north")},
            f \in {BoolField(TRUE), BoolField(FALSE), Absent}}

ClientSendJoy ==
  /\ \A s \in Sessions : inbuf[s] = <<>>
  /\ SendFrom(JoyDirRequests)

NextJoy ==
  \/ AI_FrameEnter
  \/ AI_FrameDrain
  \/ Atari800_Frame
  \/ ClientConnectOnce
  \/ ClientSendJoy
  \/ ClientClose

SpecJoy == Init /\ [][NextJoy]_vars

\* the encoding table of the documentation, -1 for a direction that is
\* center, missing or not one of the eight names
DocumentedStick(f) ==
  IF f.k # "str" THEN -1
  ELSE IF f.v = "up" THEN 14
  ELSE IF f.v = "down" THEN 13
  ELSE IF f.v = "left" THEN 11
  ELSE IF f.v = "right" THEN 7
  ELSE IF f.v = "ul" THEN 10
  ELSE IF f.v = "ur" THEN 6
  ELSE IF f.v = "ll" THEN 9
  ELSE IF f.v = "lr" THEN 5
  ELSE -1

\* C32: the dispatch of a joystick command for a port p in 0..3 sets the
\* directional entry of p to the encoding of the direction (no override
\* for center, a missing or an unknown direction) and the trigger entry of
\* p to 0 when fire is true and to no override otherwise, and leaves the
\* entries of every other port as they were.
C32_JoystickSetsPort ==
  [][(Dispatches /\ CmdType(Dispatched) = "joystick"
        /\ Field(Dispatched, "port").k = "int"
        /\ Field(Dispatched, "port").v \in Ports) =>
       LET p == Field(Dispatched, "port").v
       IN /\ AI_joy_override'[p] = DocumentedStick(Field(Dispatched, "direction"))
          /\ AI_trig_override'[p] =
               IF Field(Dispatched, "fire") = BoolField(TRUE) THEN 0 ELSE -1
          /\ \A q \in Ports \ {p} :
               /\ AI_joy_override'[q] = AI_joy_override[q]
               /\ AI_trig_override'[q] = AI_trig_override[q]]_vars

\* a diagonal with fire was set on port 0 and is still there after port 3
\* was given another direction without fire
C32_Witness ==
  /\ AI_joy_override[0] = 5 /\ AI_trig_override[0] = 0
  /\ AI_joy_override[NumPorts - 1] = 13 /\ AI_trig_override[NumPorts - 1] = -1
  /\ CmdType(obs_req) = "joystick"
  /\ Field(obs_req, "port").v = NumPorts - 1

\* C34: every directional override entry is -1 or one of the eight stick
\* encodings other than center (in 0..14), and every trigger override
\* entry is -1 or 0.
C34_OverrideRange ==
  \A p \in Ports :
    /\ AI_joy_override[p] \in {-1, 14, 13, 11, 7, 10, 6, 9, 5}
    /\ AI_joy_override[p] # 15
    /\ AI_trig_override[p] \in {-1, 0}

\* a port was given an override with fire and then released by a request
\* with a false fire and no direction: both entries are back at -1, while
\* the other port holds a direction and a pressed trigger
C34_Witness ==
  /\ CmdType(obs_req) = "joystick"
  /\ Field(obs_req, "port").v = NumPorts - 1
  /\ Field(obs_req, "fire") = BoolField(FALSE)
  /\ Field(obs_req, "direction") = Absent
  /\ AI_joy_override[NumPorts - 1] = -1 /\ AI_trig_override[NumPorts - 1] = -1
  /\ AI_joy_override[0] = 14 /\ AI_trig_override[0] = 0

(* ------------------------- the apply step on its own ------------------- *)
\* the calls of AI_ApplyInput: the registers as INPUT_Frame left them (port
\* bytes with all lines low, all high, and mixed nibbles), the directional
\* override table (none active, one port active with any nibble value, all
\* four ports active) and the trigger override table (none active, all
\* pressed)
ApplyQueries ==
  {[ask |-> "apply", regs |-> [pia |-> b, trig |-> HwIdle.trig],
    joy |-> j, trigo |-> t] :
     b \in {[i \in 0..1 |-> 0], [i \in 0..1 |-> 255],
            [i \in 0..1 |-> IF i = 0 THEN 165 ELSE 90]},
     j \in {[p \in Ports |-> -1], [p \in Ports |-> IF p % 2 = 0 THEN 14 ELSE 7]}
            \cup {[p \in Ports |-> IF p = i THEN v ELSE -1] :
                    i \in Ports, v \in 0..15},
     t \in {[p \in Ports |-> -1], [p \in Ports |-> 0]}}

InitApply == \E q \in ApplyQueries : BootWith(0, q)

\* AI_ApplyInput is called on the polled registers
ApplyOnce ==
  /\ jr = NoResult
  /\ LET r == AI_ApplyInput(jq.regs, jq.joy, jq.trigo)
     IN jr' = [k |-> "regs", n |-> 1, first |-> r, r |-> r]
  /\ UNCHANGED <<AI_enabled, ai_server_fd, ai_client_fd, ai_paused,
                 ai_frames_to_run, ai_steps_to_run, pc, openFds, backlog,
                 inbuf, outlog, obs_run, obs_owner, envVars, ctlVars,
                 inputVars, jq, obs_gw, obs_boot>>

\* AI_ApplyInput is called again on its own result
ApplyAgain ==
  /\ jr # NoResult
  /\ jr.n = 1
  /\ jr' = [jr EXCEPT !.n = 2,
                      !.r = AI_ApplyInput(jr.r, jq.joy, jq.trigo)]
  /\ UNCHANGED <<AI_enabled, ai_server_fd, ai_client_fd, ai_paused,
                 ai_frames_to_run, ai_steps_to_run, pc, openFds, backlog,
                 inbuf, outlog, obs_run, obs_owner, envVars, ctlVars,
                 inputVars, jq, obs_gw, obs_boot>>

NextApply ==
  \/ ApplyOnce
  \/ ApplyAgain
  \/ AI_FrameEnter
  \/ Atari800_Frame
  \/ HostInput

SpecApply == InitApply /\ [][NextApply]_vars

\* C33: with the layer enabled, the apply step puts the override v of each
\* port i that has one in bits 4*(i mod 2) .. 4*(i mod 2)+3 of port-input
\* byte i div 2 (nothing of the polled nibble is left), leaves the nibble
\* of every port without an override as polled, keeps both bytes in
\* 0..255, and applied a second time changes nothing.
C33_NibbleReplaced ==
  (AI_enabled /\ jr # NoResult) =>
    /\ \A i \in Ports :
         Nibble(jr.first.pia, i) =
           IF jq.joy[i] >= 0 THEN jq.joy[i] ELSE Nibble(jq.regs.pia, i)
    /\ \A x \in 0..1 : jr.first.pia[x] \in 0..255
    /\ jr.n = 2 => jr.r = jr.first

\* port 1 has the override 5 on the polled byte 0xA5: the byte is 0x55
\* after one application and after two, the other byte is as polled
C33_Witness ==
  /\ AI_enabled /\ jr # NoResult /\ jr.n = 2
  /\ jq.regs.pia[0] = 165 /\ jq.joy[1] = 5 /\ jq.joy[0] = -1
  /\ jr.first.pia[0] = 85 /\ jr.r.pia[0] = 85 /\ jr.r.pia[1] = 90

\* the layer's own state, as AI_Frame and AI_ApplyInput could change it
LayerState ==
  <<ai_client_fd, ai_paused, ai_frames_to_run, ai_steps_to_run, openFds,
    backlog, inbuf, outlog, AI_joy_override, AI_trig_override, AI_debug_port,
    ai_debug_buffer, POKEY_POT_input>>

\* C35: while the layer is not enabled, a call of AI_Frame changes nothing
\* of the layer's state and does not enter the drain loop, AI_IsPaused is
\* false, the input registers after a frame are the polled host input, and
\* AI_ApplyInput returns the registers it was given whatever the override
\* tables hold.
C35_DisabledIsInert ==
  /\ [](~AI_enabled => (~AI_IsPaused /\ ~DrainCond(Cur)))
  /\ [](~AI_enabled /\ jr # NoResult => jr.r = jq.regs)
  /\ [][~AI_enabled =>
         /\ UNCHANGED LayerState
         /\ (pc = "loop" /\ pc' = "host") =>
              /\ PIA_PORT_input' = hw.pia
              /\ GTIA_TRIG' = hw.trig]_vars

\* the layer is not enabled although the flag was given (the socket could
\* not be set up); frames have run with the host's sticks held and the
\* registers show them, and the apply step was called with overrides on
\* every port
C35_Witness ==
  /\ ~AI_enabled /\ ai_paused = 1
  /\ jr # NoResult /\ jr.n = 2
  /\ \A p \in Ports : jq.joy[p] >= 0 /\ jq.trigo[p] = 0
  /\ jr.r.pia = jq.regs.pia
  /\ hw = HwHeld /\ PIA_PORT_input = HwHeld.pia /\ pc = "host"

(* ------------------------- the idle poll ------------------------------- *)
\* C36: a call of AI_Frame made with no session attached, no connection
\* pending and no frames remaining leaves the scheduler state, the override
\* tables, the debug buffer and the session state as they were and does
\* not enter the drain loop.
C36_IdlePollIsNoOp ==
  [][(pc = "host" /\ pc' = "loop" /\ ai_client_fd < 0 /\ backlog = <<>>
        /\ ai_frames_to_run = 0) =>
       /\ UNCHANGED <<ai_paused, ai_frames_to_run, ai_steps_to_run>>
       /\ UNCHANGED <<AI_joy_override, AI_trig_override, POKEY_POT_input>>
       /\ UNCHANGED <<AI_debug_port, ai_debug_buffer>>
       /\ UNCHANGED <<ai_client_fd, openFds, backlog, inbuf, outlog>>
       /\ ~(ai_paused' # 0 /\ ai_client_fd' >= 0)]_vars

\* the only session set an override and is gone; a frame has run since (the
\* override shows in the port-input byte) and AI_Frame was called again
C36_Witness ==
  /\ AI_enabled /\ pc = "loop"
  /\ ai_client_fd < 0 /\ backlog = <<>> /\ nextSess > 1
  /\ ai_paused = 1 /\ ai_frames_to_run = 0
  /\ AI_joy_override[0] = 14 /\ AI_trig_override[0] = 0
  /\ PIA_PORT_input[0] = 254
  /\ outlog[1] # <<>>

(* ------------------------- the emulator-state specification ------------ *)
\* poke at the bottom of memory and across the top of the address space,
\* with bytes, a number above 255, a negative number between two bytes,
\* an empty array and no array; peek of one to three bytes at the same
\* addresses; consol with every flag true, false or missing; cpu_set
\* naming one register, several and none, with values inside and outside
\* the registers' ranges; and cpu
EmuRequests ==
  {[cmd |-> "poke", addr |-> IntField(a), data |-> d] :
     a \in {0, MemSize - 1},
     d \in {ArrayField(<<1, 2>>), ArrayField(<<300, 7>>),
            ArrayField(<<5, -1, 9>>), ArrayField(<<>>), Absent}}
    \cup {[cmd |-> "peek", addr |-> IntField(a), len |-> IntField(l)] :
            a \in {0, MemSize - 1}, l \in 1..3}
    \cup {[cmd |-> "consol", start |-> a, select |-> b, option |-> c] :
     a \in {BoolField(TRUE), BoolField(FALSE), Absent},
     b \in {BoolField(TRUE), BoolField(FALSE)},
            c \in {BoolField(FALSE), Absent}}
    \cup {[cmd |-> "cpu_set", pc |-> IntField(4660)],
          [cmd |-> "cpu_set", a |-> IntField(7)],
          [cmd |-> "cpu_set", a |-> IntField(300), x |-> IntField(-1)],
          [cmd |-> "cpu_set", pc |-> IntField(70000), sp |-> IntField(1)],
          [cmd |-> "cpu_set", y |-> IntField(9), sp |-> IntField(0)],
          [cmd |-> "cpu_set"],
          [cmd |-> "cpu"]}

ClientSendEmu ==
  /\ \A s \in Sessions : inbuf[s] = <<>>
  /\ SendFrom(EmuRequests)

NextEmu ==
  \/ AI_FrameEnter
  \/ AI_FrameDrain
  \/ Atari800_Frame
  \/ ClientConnectOnce
  \/ ClientSendEmu
  \/ ClientClose

SpecEmu == Init /\ [][NextEmu]_vars

\* the elements of the data array of a poke request
PokeData(req) ==
  IF Field(req, "data").k = "array" THEN Field(req, "data").v ELSE <<>>

\* the address element i (from 0) of a poke goes to
PokeTarget(req, i) == (Field(req, "addr").v + i) % 65536

\* C37: the dispatch of poke {addr: a, data: [v0..vk]} stores vi mod 256
\* at address (a + i) mod 65536 for every i in 0..k (seen where the address
\* is plain RAM) and changes no other address; a peek {addr: a, len: k+1}
\* dispatched next, the addresses being plain RAM, returns
\* [v0 mod 256, .., vk mod 256].
C37_PokeThenPeek ==
  /\ [][(Dispatches /\ CmdType(Dispatched) = "poke") =>
         LET d == PokeData(Dispatched)
             T == {PokeTarget(Dispatched, i - 1) : i \in 1..Len(d)}
         IN /\ \A i \in 1..Len(d) :
                 PlainRam(PokeTarget(Dispatched, i - 1)) =>
                   MemoryRead(MEMORY_mem', PokeTarget(Dispatched, i - 1))
                     = d[i] % 256
            /\ DOMAIN MEMORY_mem' \subseteq DOMAIN MEMORY_mem \cup T
            /\ \A x \in DOMAIN MEMORY_mem \ T : MEMORY_mem'[x] = MEMORY_mem[x]]_vars
  /\ [][(Dispatches /\ CmdType(Dispatched) = "peek"
          /\ CmdType(obs_req) = "poke"
          /\ Field(obs_req, "addr") = Field(Dispatched, "addr")
          /\ Len(PokeData(obs_req)) = Field(Dispatched, "len").v
          /\ \A i \in 1..Len(PokeData(obs_req)) :
               PlainRam(PokeTarget(obs_req, i - 1))) =>
         /\ Response(ai_client_fd).key = "data"
         /\ Response(ai_client_fd).val =
              [i \in 1..Len(PokeData(obs_req)) |-> PokeData(obs_req)[i] % 256]]_vars

\* a console key is pressed: its bit in the console value is cleared
ConsolPressed(c, bit) == BitAnd(c, bit) = 0

\* C38: after the dispatch of a consol command each of the keys start,
\* select and option is pressed (its bit cleared in INPUT_key_consol)
\* exactly when its flag in the command is true; a key whose flag is false
\* or missing is not pressed.
C38_ConsolPressedWhenTrue ==
  [][(Dispatches /\ CmdType(Dispatched) = "consol") =>
       /\ ConsolPressed(INPUT_key_consol', 1)
            <=> Field(Dispatched, "start") = BoolField(TRUE)
       /\ ConsolPressed(INPUT_key_consol', 2)
            <=> Field(Dispatched, "select") = BoolField(TRUE)
       /\ ConsolPressed(INPUT_key_consol', 4)
            <=> Field(Dispatched, "option") = BoolField(TRUE)]_vars

\* the registers cpu_set can name and the number of values each can hold
CpuRegNames == {"pc", "a", "x", "y", "sp"}
RegValues(r) == IF r = "pc" THEN 65536 ELSE 256

Screen_WIDTH == 384
Screen_HEIGHT == 240
\* the text grid, the raster region it is sampled from and its margins
TextRows == 24
TextCols == 40
RegionWidth == 336
RegionHeight == 192
LeftMargin == 24
TopMargin == 24
\* strlen(" .:-=+*#%@")
char_count == 10
\* sizeof(ascii_data), and the room the loops keep free in it
AsciiSize == 2048
RowReserve == 100
ColReserve == 50

\* screen contents: one byte everywhere (every luminance, with the colour
\* nibble clear and set), the buffer index as the byte, the line number as
\* the byte
Images ==
  {[kind |-> "flat", v |-> 16 * c + l] : c \in {0, 15}, l \in 0..15}
    \cup {[kind |-> "index", v |-> 0], [kind |-> "line", v |-> 0]}

\* ((UBYTE *)Screen_atari)[idx]
ScreenByte(img, idx) ==
  IF img.kind = "flat" THEN img.v
  ELSE IF img.kind = "index" THEN idx % 256
  ELSE (idx \div Screen_WIDTH) % 256

\* the clamps: if (s < 0) s = 0; if (s >= limit) s = limit - 1
Clamp(c, limit) == IF c < 0 THEN 0 ELSE IF c >= limit THEN limit - 1 ELSE c

\* sx and sy of a character cell
SampleX(col) == Clamp((col * RegionWidth) \div TextCols + LeftMargin, Screen_WIDTH)
SampleY(row) == Clamp((row * RegionHeight) \div TextRows + TopMargin, Screen_HEIGHT)

\* a mutant: the luminance is scaled by the number of glyphs
GlyphIndexCount(pixel) == (BitAnd(pixel, 15) * char_count) \div 15

\* char_idx = (pixel & 0x0F) * (char_count - 1) / 15
GlyphIndex(pixel) == (BitAnd(pixel, 15) * (char_count - 1)) \div 15

\* the inner loop from column col on, pos being the output position: the
\* glyph indices put out
RECURSIVE RowGlyphs(_, _, _, _, _)
RowGlyphs(img, row, col, pos, outsize) ==
  IF col < TextCols /\ pos < outsize - ColReserve
    THEN <<GlyphIndex(ScreenByte(img, SampleY(row) * Screen_WIDTH + SampleX(col)))>>
           \o RowGlyphs(img, row, col + 1, pos + 1, outsize)
    ELSE <<>>

\* the conversion is called on one of the screens
InitScreen == \E i \in Images : BootWith(0, [ask |-> "screen", img |-> i])

\* screen_to_ascii up to its outer loop: out[pos++] = '['
ScreenStart ==
  /\ jr = NoResult
  /\ jr' = [k |-> "screen", row |-> 0, pos |-> 1, rows |-> <<>>, xs |-> {},
            ys |-> {}, done |-> FALSE]
  /\ UNCHANGED <<AI_enabled, ai_server_fd, ai_client_fd, ai_paused,
                 ai_frames_to_run, ai_steps_to_run, pc, openFds, backlog,
                 inbuf, outlog, obs_run, obs_owner, envVars, ctlVars,
                 inputVars, jq, obs_gw, obs_boot>>

\* one iteration of the outer loop, or its end: out[pos++] = ']'
ScreenRow ==
  /\ jr # NoResult
  /\ ~jr.done
  /\ IF jr.row < TextRows /\ jr.pos < AsciiSize - RowReserve
       THEN LET g == RowGlyphs(jq.img, jr.row, 0, jr.pos + 1, AsciiSize)
            IN jr' = [jr EXCEPT
                        !.rows = Append(@, g),
                        !.xs = @ \cup {SampleX(c - 1) : c \in 1..Len(g)},
                        !.ys = @ \cup {SampleY(jr.row)},
                        !.pos = jr.pos + 1 + Len(g) + 1
                                  + (IF jr.row < TextRows - 1 THEN 1 ELSE 0),
                        !.row = jr.row + 1]
       ELSE jr' = [jr EXCEPT !.done = TRUE, !.pos = jr.pos + 1]
  /\ UNCHANGED <<AI_enabled, ai_server_fd, ai_client_fd, ai_paused,
                 ai_frames_to_run, ai_steps_to_run, pc, openFds, backlog,
                 inbuf, outlog, obs_run, obs_owner, envVars, ctlVars,
                 inputVars, jq, obs_gw, obs_boot>>

NextScreen ==
  \/ ScreenStart
  \/ ScreenRow

SpecScreen == InitScreen /\ [][NextScreen]_vars

\* C40: screen_to_ascii puts out 24 rows of exactly 40 glyphs; every
\* pixel sampled has 0 <= x < 384 and 0 <= y < 240; every glyph index is
\* in 0..9; on a screen of one luminance l every glyph index is the whole
\* part of 9 l / 15 (so 0 for luminance 0, 9 for luminance 15, and never
\* smaller for a larger luminance), whatever the colour nibble.
C40_AsciiGrid ==
  (jr # NoResult) =>
    /\ jr.xs \subseteq 0..383
    /\ jr.ys \subseteq 0..239
    /\ \A r \in 1..Len(jr.rows) :
         /\ Len(jr.rows[r]) = 40
         /\ \A c \in 1..40 :
              LET g == jr.rows[r][c] IN
              /\ g \in 0..9
              /\ jq.img.kind = "flat" =>
                   LET l == jq.img.v % 16 IN
                   /\ 15 * g <= 9 * l /\ 9 * l < 15 * (g + 1)
                   /\ l = 0 => g = 0
                   /\ l = 15 => g = 9
    /\ jr.done => Len(jr.rows) = 24
    /\ \A a, b \in 0..15 : a <= b => GlyphIndex(a) <= GlyphIndex(b)

\* the conversion is complete on a screen of the highest luminance with a
\* colour: 24 rows ending in the last glyph, 1033 characters put out
C40_Witness ==
  /\ jr # NoResult /\ jr.done
  /\ jq.img = [kind |-> "flat", v |-> 255]
  /\ Len(jr.rows) = 24 /\ jr.rows[24][40] = 9
  /\ jr.pos = 1033
  /\ 351 \in jr.xs /\ 208 \in jr.ys

====
